---- MODULE Spec2Model ----
(***************************************************************************)
(* Orchestration core of the AI support agent: the request pipeline of     *)
(* OrchestrationRouter.process_request, the execution-plan engine it       *)
(* drives, the request context, the ambiguity resolver and the policies.   *)
(*                                                                         *)
(* Numbers in [0,1] (confidences, signal strengths, thresholds) are kept   *)
(* in hundredths: 0.6 is 60.  A Python dict is a function whose DOMAIN is  *)
(* its key set; a Python list is a sequence; None is the string "None"     *)
(* where the value is otherwise a string, and an absent key otherwise.     *)
(***************************************************************************)
EXTENDS Integers, Sequences, FiniteSets, TLC

\* ------------------------------------------------------------------------
\* Bounds of the model
\* ------------------------------------------------------------------------

\* Requests that may be in flight on one router.
NumRequests == 2

\* Number of actions of the freely chosen plans handed to _execute_plan.
MaxActions == 2

RequestIds == 1..NumRequests

\* The request a single caller issues (specifications Spec and SpecPlan).
SingleCaller == {1}

None == "None"

EmptyDict == <<>>

\* A text the program builds is the sequence of the fragments it concatenates
\* (an f-string or a join); no text at all (None) is the empty sequence.
Text(s) == <<s>>

NoText == <<>>

\* Optional values: None is <<>>, a present value v is <<v>>.
Nothing == <<>>

Some(v) == <<v>>

\* ------------------------------------------------------------------------
\* Sequence helpers
\* ------------------------------------------------------------------------

RECURSIVE SumSeq(_)
SumSeq(s) == IF s = <<>> THEN 0 ELSE Head(s) + SumSeq(Tail(s))

Range(s) == {s[i] : i \in DOMAIN s}

\* The indices i of s with P-marked entries, in increasing order.
RECURSIVE IndicesWhere(_, _, _)
IndicesWhere(marks, i, n) ==
    IF i > n THEN <<>>
    ELSE IF marks[i] THEN <<i>> \o IndicesWhere(marks, i + 1, n)
         ELSE IndicesWhere(marks, i + 1, n)

\* ------------------------------------------------------------------------
\* execution_plan.py: Action and ExecutionPlan
\* ------------------------------------------------------------------------

ActionTypes ==
    {"agent_call", "tool_call", "data_fetch", "validation",
     "response_generation", "escalation"}

ActionStatuses == {"pending", "in_progress", "completed", "failed", "skipped"}

\* Action(...) as the dataclass constructs it: status pending, no result, no
\* error, retry flags at their defaults.
Action(action_id, action_type, component, depends_on, required) ==
    [action_id        |-> action_id,
     action_type      |-> action_type,
     component        |-> component,
     depends_on       |-> depends_on,
     status           |-> "pending",
     result           |-> EmptyDict,
     error            |-> None,
     required         |-> required,
     retry_on_failure |-> FALSE,
     max_retries      |-> 0]

\* Action.can_execute(completed_actions)
can_execute_any_dep(action, completed_actions) ==
    IF action.status # "pending" THEN FALSE
    ELSE action.depends_on = {}
         \/ \E dep \in action.depends_on : dep \in completed_actions

can_execute_ignoring_deps(action, completed_actions) ==
    action.status = "pending"

can_execute(action, completed_actions) ==
    IF action.status # "pending" THEN FALSE
    ELSE \A dep \in action.depends_on : dep \in completed_actions

\* Action.mark_completed(result)
mark_completed(action, result) ==
    [action EXCEPT !.status = "completed", !.result = result]

\* Action.mark_failed(error)
mark_failed_retrying(action, error) ==
    IF action.retry_on_failure /\ action.max_retries > 0
    THEN [action EXCEPT !.error = error]
    ELSE [action EXCEPT !.status = "failed", !.error = error]

mark_failed(action, error) ==
    [action EXCEPT !.status = "failed", !.error = error]

\* Action.mark_skipped()
mark_skipped_as_failed(action) == [action EXCEPT !.status = "failed"]

mark_skipped_as_completed(action) == [action EXCEPT !.status = "completed"]

mark_skipped(action) == [action EXCEPT !.status = "skipped"]

\* ExecutionPlan.get_next_actions(): the positions, in list order, of the
\* actions that can execute given the ids of the completed ones.
get_next_actions(actions) ==
    LET completed == {actions[i].action_id :
                        i \in {j \in DOMAIN actions : actions[j].status = "completed"}}
        ready == [i \in DOMAIN actions |-> can_execute(actions[i], completed)]
    IN  IndicesWhere(ready, 1, Len(actions))

\* ExecutionPlan.is_complete()
is_complete_all_actions(actions) ==
    \A i \in DOMAIN actions : actions[i].status = "completed"

\* ExecutionPlan.is_complete()
is_complete(actions) ==
    \A i \in DOMAIN actions :
        ~(actions[i].required /\ actions[i].status # "completed")

\* ExecutionPlan.has_failed()
has_failed_all_required(actions) ==
    \A i \in DOMAIN actions :
        actions[i].required => actions[i].status = "failed"

\* ExecutionPlan.has_failed()
has_failed(actions) ==
    \E i \in DOMAIN actions :
        actions[i].required /\ actions[i].status = "failed"

\* ExecutionPlan.get_progress()
get_progress(actions) ==
    LET count(st) == Cardinality({i \in DOMAIN actions : actions[i].status = st})
    IN  [total       |-> Len(actions),
         pending     |-> count("pending"),
         in_progress |-> count("in_progress"),
         completed   |-> count("completed"),
         failed      |-> count("failed"),
         skipped     |-> count("skipped")]

\* ExecutionPlan.to_dict(): the fields the responses expose.
plan_to_dict(p) ==
    [plan_id     |-> p.plan_id,
     intent      |-> p.intent,
     actions     |-> [i \in DOMAIN p.actions |->
                        [action_id |-> p.actions[i].action_id,
                         type      |-> p.actions[i].action_type,
                         component |-> p.actions[i].component,
                         status    |-> p.actions[i].status,
                         required  |-> p.actions[i].required]],
     progress    |-> get_progress(p.actions),
     is_complete |-> is_complete(p.actions),
     has_failed  |-> has_failed(p.actions)]

ExecutionPlan(plan_id, intent, actions) ==
    [plan_id |-> plan_id, intent |-> intent, actions |-> actions]

\* ------------------------------------------------------------------------
\* execution_plan.py: ExecutionPlanBuilder
\* ------------------------------------------------------------------------

_build_order_status_plan ==
    ExecutionPlan("plan_order_status", "order_status",
        << Action("fetch_order", "data_fetch", "shopify", {}, TRUE),
           Action("generate_response", "agent_call", "orders_agent",
                  {"fetch_order"}, TRUE) >>)

_build_product_info_plan ==
    ExecutionPlan("plan_product_info", "product_info",
        << Action("search_knowledge", "data_fetch", "knowledge_base", {}, TRUE),
           Action("generate_answer", "agent_call", "knowledge_agent",
                  {"search_knowledge"}, TRUE) >>)

\* The ticket plan with its first action depending on its second.
_build_ticket_plan_forward ==
    ExecutionPlan("plan_ticket", "ticket_creation",
        << Action("create_ticket_data", "agent_call", "tickets_agent",
                  {"create_ticket"}, TRUE),
           Action("create_ticket", "tool_call", "gorgias",
                  {"create_ticket_data"}, TRUE),
           Action("send_confirmation", "response_generation",
                  "response_formatter", {"create_ticket"}, TRUE) >>)

_build_ticket_plan ==
    ExecutionPlan("plan_ticket", "ticket_creation",
        << Action("create_ticket_data", "agent_call", "tickets_agent", {}, TRUE),
           Action("create_ticket", "tool_call", "gorgias",
                  {"create_ticket_data"}, TRUE),
           Action("send_confirmation", "response_generation",
                  "response_formatter", {"create_ticket"}, TRUE) >>)

_build_returns_plan ==
    ExecutionPlan("plan_returns", "returns_refunds",
        << Action("fetch_order", "data_fetch", "shopify", {}, TRUE),
           Action("create_return_ticket", "agent_call", "tickets_agent",
                  {"fetch_order"}, TRUE) >>)

_build_knowledge_plan ==
    ExecutionPlan("plan_knowledge", "general_inquiry",
        << Action("search_knowledge", "data_fetch", "knowledge_base", {}, TRUE),
           Action("generate_answer", "agent_call", "knowledge_agent",
                  {"search_knowledge"}, TRUE) >>)

_build_escalation_plan ==
    ExecutionPlan("plan_escalation", "escalation",
        << Action("notify_human", "escalation", "slack", {}, TRUE),
           Action("send_handoff", "response_generation", "response_formatter",
                  {"notify_human"}, TRUE) >>)

_build_default_plan ==
    ExecutionPlan("plan_default", "unknown",
        << Action("generate_fallback", "response_generation",
                  "response_formatter", {}, TRUE) >>)

\* ExecutionPlanBuilder.build_for_intent(intent, context)
build_for_intent(intent) ==
    IF intent = "order_status" THEN _build_order_status_plan
    ELSE IF intent = "product_info" THEN _build_product_info_plan
    ELSE IF intent = "ticket_creation" THEN _build_ticket_plan
    ELSE IF intent = "returns_refunds" THEN _build_returns_plan
    ELSE IF intent \in {"general_inquiry", "greeting"} THEN _build_knowledge_plan
    ELSE IF intent = "escalation" THEN _build_escalation_plan
    ELSE _build_default_plan

\* ------------------------------------------------------------------------
\* Dict helpers
\* ------------------------------------------------------------------------

\* d[key] = value on a dict: a new key is added, an old one overwritten.
DictSet(d, key, value) ==
    [k \in (DOMAIN d) \cup {key} |-> IF k = key THEN value ELSE d[k]]

\* An insertion-ordered dict as a sequence of <<key, value>>: assignment to a
\* key already present keeps its position, a new key goes last.
OrderedSet(items, key, value) ==
    IF \E i \in DOMAIN items : items[i][1] = key
    THEN [i \in DOMAIN items |->
            IF items[i][1] = key THEN <<key, value>> ELSE items[i]]
    ELSE Append(items, <<key, value>>)

\* ------------------------------------------------------------------------
\* context.py: OrchestrationContext
\* ------------------------------------------------------------------------

\* ContextBuilder.from_request(user_message, ..., conversation_history,
\* user_metadata): identifiers are fresh per context (uuid4), modelled by the
\* request's number.
from_request(r, user_message, conversation_history, user_metadata) ==
    [request_id             |-> <<"req", r>>,
     trace_id               |-> <<"trace", r>>,
     user_message           |-> user_message,
     conversation_history   |-> conversation_history,
     user_metadata          |-> user_metadata,
     current_intent         |-> None,
     confidence_scores      |-> EmptyDict,
     executed_agents        |-> <<>>,
     requires_clarification |-> FALSE,
     clarification_question |-> None,
     execution_plan         |-> None,
     errors                 |-> <<>>,
     warnings               |-> <<>>,
     agent_latencies        |-> EmptyDict,
     total_tokens_used      |-> 0,
     total_cost_usd         |-> 0,
     escalate_to_human      |-> FALSE,
     escalation_reason      |-> None,
     elapsed                |-> 0]

\* OrchestrationContext.add_agent_execution(agent_name, latency_ms, tokens, cost)
add_agent_execution(c, agent_name, latency_ms, tokens, cost) ==
    [c EXCEPT !.executed_agents   = Append(@, agent_name),
              !.agent_latencies   = DictSet(@, agent_name, latency_ms),
              !.total_tokens_used = @ + tokens,
              !.total_cost_usd    = @ + cost]

\* OrchestrationContext.add_error(error, component, severity)
add_error_dropped(c, error, component, severity) == c

add_error(c, error, component, severity) ==
    [c EXCEPT !.errors = Append(@, [error     |-> error,
                                    component |-> component,
                                    severity  |-> severity])]

\* OrchestrationContext.set_confidence(agent, confidence)
set_confidence(c, agent, confidence) ==
    [c EXCEPT !.confidence_scores = DictSet(@, agent, confidence)]

\* OrchestrationContext.get_metrics()
get_metrics(c) ==
    [elapsed_time_ms |-> c.elapsed,
     agents_executed |-> Len(c.executed_agents),
     agent_latencies |-> c.agent_latencies,
     total_tokens    |-> c.total_tokens_used,
     total_cost_usd  |-> c.total_cost_usd,
     error_count     |-> Len(c.errors),
     warning_count   |-> Len(c.warnings)]

\* ------------------------------------------------------------------------
\* policies.py: FallbackPolicy
\* ------------------------------------------------------------------------

fallback_responses ==
    [order_status    |-> "I'm having trouble accessing order information right now. Please email support@example.com with your order number, and we'll help you immediately.",
     product_info    |-> "I'm unable to retrieve product details at the moment. Please visit our website or contact support for product information.",
     ticket_creation |-> "I can't create a ticket right now, but you can email support@example.com and our team will help you.",
     general         |-> "I'm experiencing technical difficulties. Please try again in a moment, or contact support@example.com for immediate assistance."]

\* FallbackPolicy.get_fallback_response(intent)
get_fallback_response_generic(intent) == Text(fallback_responses["general"])

get_fallback_response(intent) ==
    IF intent \in DOMAIN fallback_responses
    THEN Text(fallback_responses[intent])
    ELSE Text(fallback_responses["general"])

\* ------------------------------------------------------------------------
\* ambiguity.py: the user messages of the model and their characters
\* ------------------------------------------------------------------------

\* The characters of each message of the model.
CharsOf ==
    ("Where is my order #12345?" :> <<"W","h","e","r","e"," ","i","s"," ","m","y"," ","o","r","d","e","r"," ","#","1","2","3","4","5","?">>) @@
    ("help" :> <<"h","e","l","p">>) @@
    ("Could you check my recent delivery status please" :> <<"C","o","u","l","d"," ","y","o","u"," ","c","h","e","c","k"," ","m","y"," ","r","e","c","e","n","t"," ","d","e","l","i","v","e","r","y"," ","s","t","a","t","u","s"," ","p","l","e","a","s","e">>) @@
    ("Tell me about your store hours today" :> <<"T","e","l","l"," ","m","e"," ","a","b","o","u","t"," ","y","o","u","r"," ","s","t","o","r","e"," ","h","o","u","r","s"," ","t","o","d","a","y">>) @@
    ("Can I return it" :> <<"C","a","n"," ","I"," ","r","e","t","u","r","n"," ","i","t">>) @@
    ("I need help now please" :> <<"I"," ","n","e","e","d"," ","h","e","l","p"," ","n","o","w"," ","p","l","e","a","s","e">>) @@
    ("I need help with my account" :> <<"I"," ","n","e","e","d"," ","h","e","l","p"," ","w","i","t","h"," ","m","y"," ","a","c","c","o","u","n","t">>) @@
    ("What? Why?" :> <<"W","h","a","t","?"," ","W","h","y","?">>) @@
    ("Is this helpful" :> <<"I","s"," ","t","h","i","s"," ","h","e","l","p","f","u","l">>) @@
    ("Is that item in my order" :> <<"I","s"," ","t","h","a","t"," ","i","t","e","m"," ","i","n"," ","m","y"," ","o","r","d","e","r">>) @@
    ("" :> <<>>)

\* The messages submitted to process_request.
Messages ==
    {"Where is my order #12345?", "help",
     "Could you check my recent delivery status please",
     "Tell me about your store hours today", "Can I return it"}

\* The messages handed to the detector directly: those and more.
DetectorMessages == DOMAIN CharsOf

UpperToLower ==
    [A |-> "a", B |-> "b", C |-> "c", D |-> "d", E |-> "e", F |-> "f",
     G |-> "g", H |-> "h", I |-> "i", J |-> "j", K |-> "k", L |-> "l",
     M |-> "m", N |-> "n", O |-> "o", P |-> "p", Q |-> "q", R |-> "r",
     S |-> "s", T |-> "t", U |-> "u", V |-> "v", W |-> "w", X |-> "x",
     Y |-> "y", Z |-> "z"]

\* str.lower()
lower(chars) ==
    [i \in DOMAIN chars |->
        IF chars[i] \in DOMAIN UpperToLower THEN UpperToLower[chars[i]]
        ELSE chars[i]]

\* pattern in text (substring test)
Contains(chars, pattern) ==
    \E i \in 1..(Len(chars) - Len(pattern) + 1) :
        SubSeq(chars, i, i + Len(pattern) - 1) = pattern

\* len(text.split()): the number of maximal runs of non-blank characters
word_count(chars) ==
    Cardinality({i \in DOMAIN chars :
                    chars[i] # " " /\ (i = 1 \/ chars[i - 1] = " ")})

\* text.count('?')
question_count(chars) == Cardinality({i \in DOMAIN chars : chars[i] = "?"})

generic_patterns ==
    { <<"h","e","l","p">>, <<"q","u","e","s","t","i","o","n">>, <<"i","s","s","u","e">>, <<"p","r","o","b","l","e","m">>, <<"c","a","n"," ","y","o","u">>, <<"i"," ","n","e","e","d">> }

reference_words == { <<"i","t">>, <<"t","h","a","t">>, <<"t","h","i","s">>, <<"t","h","e","y">> }

order_words == { <<"o","r","d","e","r">>, <<"d","e","l","i","v","e","r","y">>, <<"s","h","i","p","m","e","n","t">> }

product_words == { <<"p","r","o","d","u","c","t">>, <<"i","t","e","m">> }

\* ------------------------------------------------------------------------
\* ambiguity.py: AmbiguityDetector
\* ------------------------------------------------------------------------

\* AmbiguityDetector.__init__ default
ambiguity_threshold == 60

AmbiguitySignal(signal_type, confidence) ==
    [signal_type |-> signal_type, confidence |-> confidence]

\* The signals detect_ambiguity collects, in the order of its five checks.
ambiguity_signals(user_message, intent_confidence, possible_intents) ==
    LET chars == CharsOf[user_message]
    IN  (IF intent_confidence # Nothing /\ intent_confidence[1] < 60
         THEN <<AmbiguitySignal("low_intent_confidence", 100 - intent_confidence[1])>>
         ELSE <<>>)
        \o
        (IF possible_intents # Nothing /\ Len(possible_intents[1]) > 1
         THEN <<AmbiguitySignal("multiple_intents", 70)>>
         ELSE <<>>)
        \o
        (IF word_count(chars) <= 3
         THEN <<AmbiguitySignal("too_short", 60)>>
         ELSE <<>>)
        \o
        (IF (\E pattern \in generic_patterns : Contains(lower(chars), pattern))
            /\ word_count(chars) <= 5
         THEN <<AmbiguitySignal("generic_request", 70)>>
         ELSE <<>>)
        \o
        (IF question_count(chars) > 1
         THEN <<AmbiguitySignal("multiple_questions", 50)>>
         ELSE <<>>)

\* The largest weight instead of the mean.
ambiguity_score_max(signals) ==
    IF signals # <<>>
    THEN [num |-> CHOOSE w \in {signals[i].confidence : i \in DOMAIN signals} :
                     \A i \in DOMAIN signals : w >= signals[i].confidence,
          den |-> 1]
    ELSE [num |-> 0, den |-> 1]

\* The ambiguity score sum(confidences)/len(signals) as the fraction
\* num/den of hundredths (0/1 when no signal fired).
ambiguity_score(signals) ==
    IF signals # <<>>
    THEN [num |-> SumSeq([i \in DOMAIN signals |-> signals[i].confidence]),
          den |-> Len(signals)]
    ELSE [num |-> 0, den |-> 1]

\* score >= bound, bound in hundredths
ScoreAtLeast(score, bound) == score.num >= bound * score.den

\* AmbiguityDetector.detect_ambiguity(user_message, intent_confidence,
\* possible_intents) -> (is_ambiguous, ambiguity_score, signals)
detect_ambiguity(user_message, intent_confidence, possible_intents) ==
    LET signals == ambiguity_signals(user_message, intent_confidence, possible_intents)
        score   == ambiguity_score(signals)
    IN  [is_ambiguous    |-> ScoreAtLeast(score, ambiguity_threshold),
         ambiguity_score |-> score,
         signals         |-> signals]

\* AmbiguityDetector.detect_missing_context(user_message, context): the
\* missing items in the order of the three checks.  A context value is
\* truthy unless it is an empty list.
detect_missing_context(user_message, context) ==
    LET message_lower == lower(CharsOf[user_message])
    IN  (IF (\E word \in reference_words : Contains(message_lower, word))
            /\ ~("conversation_history" \in DOMAIN context
                 /\ context["conversation_history"] # <<>>)
         THEN <<"conversation_context">> ELSE <<>>)
        \o
        (IF (\E word \in order_words : Contains(message_lower, word))
            /\ "order_id" \notin DOMAIN context
         THEN <<"order_id">> ELSE <<>>)
        \o
        (IF (\E word \in product_words : Contains(message_lower, word))
            /\ "product_name" \notin DOMAIN context
         THEN <<"product_name">> ELSE <<>>)

\* ------------------------------------------------------------------------
\* ambiguity.py: ClarificationGenerator
\* ------------------------------------------------------------------------

\* "\n".join(["- " + x for x in items])
RECURSIVE JoinBullets(_)
JoinBullets(items) ==
    IF items = <<>> THEN <<>>
    ELSE IF Len(items) = 1 THEN <<"- ", items[1]>>
    ELSE <<"- ", items[1], "\n">> \o JoinBullets(Tail(items))

intent_map ==
    [order_status       |-> "check the status of an existing order",
     product_info       |-> "learn about products or their availability",
     ticket_creation    |-> "report an issue or get technical support",
     returns_refunds    |-> "process a return or refund",
     account_management |-> "manage your account settings"]

\* intent_map.get(i, i)
describe_intent(i) == IF i \in DOMAIN intent_map THEN intent_map[i] ELSE i

\* ClarificationGenerator.generate_intent_clarification(possible_intents, _)
generate_intent_clarification(possible_intents) ==
    IF Len(possible_intents) = 2
    THEN <<"I want to help! Are you looking to ",
           describe_intent(possible_intents[1]), ", or ",
           describe_intent(possible_intents[2]), "?">>
    ELSE IF Len(possible_intents) > 2
    THEN <<"I'd be happy to help! To make sure I assist you correctly, could you tell me if you're looking for:\n">>
         \o JoinBullets([i \in 1..3 |-> describe_intent(possible_intents[i])])
    ELSE Text("Could you provide a bit more detail about what you need help with?")

context_questions ==
    [order_id             |-> "Could you provide your order number?",
     product_name         |-> "Which product are you asking about?",
     conversation_context |-> "Could you provide more details about what you're referring to?",
     email                |-> "Could you provide your email address?"]

\* context_questions.get(c, c)
describe_missing(c) ==
    IF c \in DOMAIN context_questions THEN context_questions[c] ELSE c

\* ClarificationGenerator.generate_context_clarification(missing_context)
generate_context_clarification(missing_context) ==
    IF Len(missing_context) = 1
    THEN IF missing_context[1] \in DOMAIN context_questions
         THEN Text(context_questions[missing_context[1]])
         ELSE Text("Could you provide more information?")
    ELSE <<"To help you better, I need a bit more information:\n">>
         \o JoinBullets([i \in DOMAIN missing_context |->
                            describe_missing(missing_context[i])])

\* ClarificationGenerator.generate_generic_clarification()
generate_generic_clarification ==
    Text("I want to make sure I understand correctly. Could you rephrase or provide more details about what you need?")

\* ------------------------------------------------------------------------
\* ambiguity.py: AmbiguityResolver
\* ------------------------------------------------------------------------

\* AmbiguityResolver._get_severity(ambiguity_score)
_get_severity(score) ==
    IF ScoreAtLeast(score, 80) THEN "high"
    ELSE IF ScoreAtLeast(score, 60) THEN "medium"
    ELSE "low"

\* AmbiguityResolver.analyze_and_resolve(user_message, intent_confidence,
\* possible_intents, context)
analyze_never_clarifies(user_message, intent_confidence, possible_intents, context) ==
    LET d == detect_ambiguity(user_message, intent_confidence, possible_intents)
    IN  [requires_clarification |-> FALSE,
         ambiguity_score        |-> d.ambiguity_score,
         signals                |-> d.signals,
         missing_context        |-> <<>>,
         clarification_question |-> NoText,
         severity               |-> _get_severity(d.ambiguity_score)]

\* Missing context asked about before the candidate intents.
analyze_context_first(user_message, intent_confidence, possible_intents, context) ==
    LET d           == detect_ambiguity(user_message, intent_confidence, possible_intents)
        missing     == detect_missing_context(user_message, context)
        has_missing == Len(missing) > 0
        candidates  == possible_intents # Nothing /\ possible_intents[1] # <<>>
        clarification ==
            IF has_missing
            THEN generate_context_clarification(missing)
            ELSE IF d.is_ambiguous /\ candidates
            THEN generate_intent_clarification(possible_intents[1])
            ELSE IF d.is_ambiguous
            THEN generate_generic_clarification
            ELSE NoText
    IN  [requires_clarification |-> d.is_ambiguous \/ has_missing,
         ambiguity_score        |-> d.ambiguity_score,
         signals                |-> d.signals,
         missing_context        |-> IF has_missing THEN missing ELSE <<>>,
         clarification_question |-> clarification,
         severity               |-> _get_severity(d.ambiguity_score)]

\* No generic question when there are neither candidates nor missing items.
analyze_without_generic(user_message, intent_confidence, possible_intents, context) ==
    LET d           == detect_ambiguity(user_message, intent_confidence, possible_intents)
        missing     == detect_missing_context(user_message, context)
        has_missing == Len(missing) > 0
        candidates  == possible_intents # Nothing /\ possible_intents[1] # <<>>
        clarification ==
            IF d.is_ambiguous /\ candidates
            THEN generate_intent_clarification(possible_intents[1])
            ELSE IF has_missing
            THEN generate_context_clarification(missing)
            ELSE NoText
    IN  [requires_clarification |-> d.is_ambiguous \/ has_missing,
         ambiguity_score        |-> d.ambiguity_score,
         signals                |-> d.signals,
         missing_context        |-> IF has_missing THEN missing ELSE <<>>,
         clarification_question |-> clarification,
         severity               |-> _get_severity(d.ambiguity_score)]

analyze_and_resolve(user_message, intent_confidence, possible_intents, context) ==
    LET d           == detect_ambiguity(user_message, intent_confidence, possible_intents)
        missing     == detect_missing_context(user_message, context)
        has_missing == Len(missing) > 0
        candidates  == possible_intents # Nothing /\ possible_intents[1] # <<>>
        clarification ==
            IF d.is_ambiguous /\ candidates
            THEN generate_intent_clarification(possible_intents[1])
            ELSE IF has_missing
            THEN generate_context_clarification(missing)
            ELSE IF d.is_ambiguous
            THEN generate_generic_clarification
            ELSE NoText
    IN  [requires_clarification |-> d.is_ambiguous \/ has_missing,
         ambiguity_score        |-> d.ambiguity_score,
         signals                |-> d.signals,
         missing_context        |-> IF has_missing THEN missing ELSE <<>>,
         clarification_question |-> clarification,
         severity               |-> _get_severity(d.ambiguity_score)]

\* ------------------------------------------------------------------------
\* ambiguity.py: DisambiguationStrategy
\* ------------------------------------------------------------------------

\* DisambiguationStrategy.__init__: no pending clarification.
DisambiguationStrategy == [pending_clarifications |-> EmptyDict]

\* del d[key] / d.pop(key) on a dict holding key
DictDel(d, key) == [k \in (DOMAIN d) \ {key} |-> d[k]]

\* DisambiguationStrategy.register_clarification(session_id, clarification_data)
register_clarification(self, session_id, clarification_data) ==
    [self EXCEPT !.pending_clarifications =
        DictSet(@, session_id, [data |-> clarification_data, timestamp |-> None])]

\* DisambiguationStrategy.has_pending_clarification(session_id)
has_pending_clarification(self, session_id) ==
    session_id \in DOMAIN self.pending_clarifications

\* DisambiguationStrategy.get_pending_clarification(session_id)
get_pending_clarification(self, session_id) ==
    IF session_id \in DOMAIN self.pending_clarifications
    THEN Some(self.pending_clarifications[session_id])
    ELSE Nothing

\* Resolving without removing the pending clarification.
resolve_clarification_keeps(self, session_id, user_response) ==
    IF session_id \notin DOMAIN self.pending_clarifications
    THEN [self |-> self, returned |-> Nothing]
    ELSE [self     |-> self,
          returned |-> Some([original_clarification |-> self.pending_clarifications[session_id],
                             user_response          |-> user_response,
                             resolved               |-> TRUE])]

\* DisambiguationStrategy.resolve_clarification(session_id, user_response):
\* the object afterwards and the value returned.
resolve_clarification(self, session_id, user_response) ==
    IF session_id \notin DOMAIN self.pending_clarifications
    THEN [self |-> self, returned |-> Nothing]
    ELSE LET clarification == self.pending_clarifications[session_id]
         IN  [self     |-> [self EXCEPT !.pending_clarifications = DictDel(@, session_id)],
              returned |-> Some([original_clarification |-> clarification,
                                 user_response          |-> user_response,
                                 resolved               |-> TRUE])]

\* Clearing the whole registry.
clear_pending_everything(self, session_id) ==
    IF session_id \in DOMAIN self.pending_clarifications
    THEN [self EXCEPT !.pending_clarifications = EmptyDict]
    ELSE self

\* DisambiguationStrategy.clear_pending(session_id)
clear_pending(self, session_id) ==
    IF session_id \in DOMAIN self.pending_clarifications
    THEN [self EXCEPT !.pending_clarifications = DictDel(@, session_id)]
    ELSE self

\* ------------------------------------------------------------------------
\* confidence.py: ConfidenceScore, ConfidenceAggregator, ConfidencePolicy.
\* Scores and thresholds are in hundredths; an average is the fraction
\* num/den of hundredths.
\* ------------------------------------------------------------------------

\* The level of a score given as a fraction (ConfidenceScore.get_level and
\* ConfidenceAggregator._score_to_level have the same bands).
_score_to_level(score) ==
    IF ScoreAtLeast(score, 90) THEN "very_high"
    ELSE IF ScoreAtLeast(score, 70) THEN "high"
    ELSE IF ScoreAtLeast(score, 50) THEN "medium"
    ELSE IF ScoreAtLeast(score, 30) THEN "low"
    ELSE "very_low"

ConfidenceScore(score, component, reasoning) ==
    [score |-> score, component |-> component, reasoning |-> reasoning]

\* ConfidenceScore.get_level()
get_level(self) == _score_to_level([num |-> self.score, den |-> 1])

\* ConfidenceAggregator.__init__(default_threshold); scores is the
\* insertion-ordered dict component -> ConfidenceScore.
ConfidenceAggregator(threshold) ==
    [default_threshold |-> threshold, scores |-> <<>>]

\* ConfidenceAggregator() with the default default_threshold = 0.7
DefaultConfidenceAggregator == ConfidenceAggregator(70)

\* A component keeping the first score written.
add_score_first_wins(self, component, score, reasoning) ==
    IF \E i \in DOMAIN self.scores : self.scores[i][1] = component
    THEN self
    ELSE [self EXCEPT !.scores =
            Append(@, <<component, ConfidenceScore(score, component, reasoning)>>)]

\* ConfidenceAggregator.add_score(component, score, reasoning)
add_score(self, component, score, reasoning) ==
    [self EXCEPT !.scores =
        OrderedSet(@, component, ConfidenceScore(score, component, reasoning))]

\* ConfidenceAggregator.get_score(component)
get_score(self, component) ==
    IF \E i \in DOMAIN self.scores : self.scores[i][1] = component
    THEN Some(self.scores[CHOOSE i \in DOMAIN self.scores :
                              self.scores[i][1] = component][2].score)
    ELSE Nothing

\* weights.get(component, 1.0)
WeightOf(weights, component) ==
    IF component \in DOMAIN weights[1] THEN weights[1][component] ELSE 1

\* ConfidenceAggregator.get_weighted_average(weights); weights is Nothing
\* or Some(dict component -> weight).
get_weighted_average(self, weights) ==
    IF self.scores = <<>> THEN [num |-> 0, den |-> 1]
    ELSE IF weights = Nothing
    THEN [num |-> SumSeq([i \in DOMAIN self.scores |-> self.scores[i][2].score]),
          den |-> Len(self.scores)]
    ELSE LET weighted_sum == SumSeq([i \in DOMAIN self.scores |->
                                 self.scores[i][2].score
                                     * WeightOf(weights, self.scores[i][1])])
             total_weight == SumSeq([i \in DOMAIN self.scores |->
                                 WeightOf(weights, self.scores[i][1])])
         IN  IF total_weight > 0
             THEN [num |-> weighted_sum, den |-> total_weight]
             ELSE [num |-> 0, den |-> 1]

\* ConfidenceAggregator.get_minimum()
get_minimum(self) ==
    IF self.scores = <<>> THEN Nothing
    ELSE Some(CHOOSE m \in {self.scores[i][2].score : i \in DOMAIN self.scores} :
                 \A i \in DOMAIN self.scores : m <= self.scores[i][2].score)

\* ConfidenceAggregator.get_maximum()
get_maximum(self) ==
    IF self.scores = <<>> THEN Nothing
    ELSE Some(CHOOSE m \in {self.scores[i][2].score : i \in DOMAIN self.scores} :
                 \A i \in DOMAIN self.scores : m >= self.scores[i][2].score)

\* threshold or self.default_threshold: None and 0.0 are both falsy.
threshold_or_default(self, threshold) ==
    IF threshold = Nothing \/ threshold = Some(0)
    THEN self.default_threshold
    ELSE threshold[1]

\* ConfidenceAggregator.meets_threshold(threshold, require_all)
meets_threshold(self, threshold, require_all) ==
    LET effective == threshold_or_default(self, threshold)
    IN  IF self.scores = <<>> THEN FALSE
        ELSE IF require_all
        THEN \A i \in DOMAIN self.scores : self.scores[i][2].score >= effective
        ELSE ScoreAtLeast(get_weighted_average(self, Nothing), effective)

\* ConfidenceAggregator.get_report()
get_report(self) ==
    IF self.scores = <<>>
    THEN [overall |-> [num |-> 0, den |-> 1], level |-> "very_low", scores |-> <<>>]
    ELSE LET overall == get_weighted_average(self, Nothing)
         IN  [overall          |-> overall,
              level            |-> _score_to_level(overall),
              minimum          |-> get_minimum(self),
              maximum          |-> get_maximum(self),
              scores           |-> [i \in DOMAIN self.scores |->
                                      <<self.scores[i][1],
                                        [score     |-> self.scores[i][2].score,
                                         level     |-> get_level(self.scores[i][2]),
                                         reasoning |-> self.scores[i][2].reasoning]>>],
              components_count |-> Len(self.scores)]

\* ------------------------------------------------------------------------
\* Collaborators of the router (agents package, outside the orchestration
\* core): what one call may answer.  A call either returns an AgentResult or
\* raises.
\* ------------------------------------------------------------------------

AgentResult(success, data, confidence, error, metadata) ==
    [kind       |-> "result",
     success    |-> success,
     data       |-> data,
     confidence |-> confidence,
     error      |-> error,
     metadata   |-> metadata]

Raises(message) == [kind |-> "raise", exception |-> Text(message)]

\* Intent strings: the builder's seven, one outside the builder's mapping,
\* and the empty string.
IntentStrings ==
    {"order_status", "product_info", "ticket_creation", "returns_refunds",
     "general_inquiry", "greeting", "escalation", "account_management", ""}

\* Intents the classifier names in the model.
ClassifiedIntents ==
    {"order_status", "product_info", "ticket_creation", "general_inquiry",
     "account_management", ""}

ClassifierConfidences == {20, 55, 95}

\* data["possible_intents"]: absent, or a list; a list may hold a null entry.
CandidateLists ==
    { Nothing,
      Some(<<>>),
      Some(<<"order_status", "returns_refunds">>),
      Some(<<"order_status", "product_info", "ticket_creation">>),
      Some(<<"order_status", None>>) }

ClassifierData(intent, candidates) ==
    IF candidates = Nothing THEN [intent |-> intent]
    ELSE [intent |-> intent, possible_intents |-> candidates[1]]

ClassifierMetadata == { EmptyDict, [tokens_used |-> 12, cost |-> 3] }

\* IntentAgent.execute(user_message, context)
IntentAgentReplies ==
    { AgentResult(TRUE, ClassifierData(i, cands), c, NoText, m) :
        i \in ClassifiedIntents, cands \in CandidateLists,
        c \in ClassifierConfidences, m \in ClassifierMetadata }
    \cup { AgentResult(FALSE, EmptyDict, 0, Text("intent classification failed"), EmptyDict),
           Raises("intent agent unavailable") }

\* The data a domain agent answers with on success.
AgentData(component) ==
    IF component = "orders_agent"
    THEN { [response_message |-> Text("Your order has shipped.")],
           [response_message |-> Text("Your order has shipped."),
            answer           |-> Text("It ships on Friday.")],
           [order_summary    |-> Text("1 item")] }
    ELSE IF component = "knowledge_agent"
    THEN { [answer |-> Text("We are open 9 to 5.")] }
    ELSE { [ticket_id |-> Text("T-1")] }

\* KnowledgeAgent / OrdersAgent / TicketsAgent .execute(user_message, context, ...)
DomainAgentReplies(component) ==
    { AgentResult(TRUE, d, 90, NoText, EmptyDict) : d \in AgentData(component) }
    \cup { AgentResult(FALSE, EmptyDict, 0, Text("agent could not answer"), EmptyDict),
           Raises("agent call timed out") }

EscalationReasons == { Text("User explicitly requested human agent"), NoText }

\* EscalationAgent.execute(user_message, context)
EscalationAgentReplies ==
    { AgentResult(TRUE, [should_escalate |-> TRUE, reason |-> rs, urgency |-> "high"],
                  90, NoText, EmptyDict) : rs \in EscalationReasons }
    \cup { AgentResult(TRUE, [should_escalate |-> FALSE], 90, NoText, EmptyDict),
           AgentResult(TRUE, EmptyDict, 90, NoText, EmptyDict),
           AgentResult(FALSE, [should_escalate |-> TRUE, reason |-> NoText, urgency |-> "low"],
                       0, Text("escalation agent failed"), EmptyDict),
           Raises("escalation agent unavailable") }

\* Latency measured around one collaborator call, in clock ticks.
LatencyTick == 1

\* ------------------------------------------------------------------------
\* app/middleware/rate_limit.py: RateLimitMiddleware
\* ------------------------------------------------------------------------

\* now - 60: the length in seconds of the window dispatch looks back over.
WindowSeconds == 60

\* RateLimitMiddleware(app, requests_per_minute), called with a positive
\* limit: requests is the defaultdict(list) of admission times per client id.
RateLimitMiddleware(requests_per_minute) ==
    [requests_per_minute |-> requests_per_minute, requests |-> EmptyDict]

\* The limit the middleware is constructed with.
RequestsPerMinute == 1

\* The clock and the requests served so far, oldest first.
NoTraffic == [now |-> 0, served |-> <<>>]

\* ------------------------------------------------------------------------
\* State
\* ------------------------------------------------------------------------

VARIABLES
    ctx,    \* ctx[r]: the OrchestrationContext of request r
    plan,   \* plan[r]: the ExecutionPlan object of request r (None before PLAN)
    frame,  \* frame[r]: the locals of r's process_request/_execute_plan coroutine
    obs,    \* obs[r]: what an observer of r has seen: stages entered, events
    call,   \* the last direct call of a policy method: its arguments and result
    aggregator,  \* a ConfidenceAggregator object: default_threshold and scores
    strategy,    \* a DisambiguationStrategy object: its pending_clarifications
    limiter,     \* a RateLimitMiddleware object: its limit and requests lists
    traffic      \* the clock (time.time()) and the requests the limiter has served

vars == <<ctx, plan, frame, obs, call, aggregator, strategy, limiter, traffic>>

\* The objects that live outside a request's pipeline.
standalone == <<call, aggregator, strategy, limiter, traffic>>

\* No policy method has been called.
NoDirectCall == [fn |-> "none"]

\* router.py:204
max_iterations == 10

StageOrder ==
    <<"CLASSIFY", "AMBIGUITY_CHECK", "PLAN", "EXECUTE", "ESCALATION_CHECK", "RESPOND">>

Terminals == {"CLARIFICATION", "ESCALATED", "SUCCESS", "ERROR"}

NoPlan == ExecutionPlan(None, None, <<>>)

InitialFrame ==
    [pc            |-> "idle",
     intent_result |-> EmptyDict,
     iteration     |-> 0,
     next_actions  |-> <<>>,
     idx           |-> 0,
     results       |-> <<>>,
     outcome       |-> None,
     result        |-> EmptyDict]

\* An observed event: its kind, the round and the action (plan position) it
\* belongs to, a tag, and the list or text that came with it.
Event(ev, round, action, info, data) ==
    [ev |-> ev, round |-> round, action |-> action, info |-> info, data |-> data]

InitialObs == [stages |-> <<>>, log |-> <<>>]

Enter(o, stage) == [o EXCEPT !.stages = Append(@, stage)]

Log(o, event) == [o EXCEPT !.log = Append(@, event)]

\* ------------------------------------------------------------------------
\* router.py: pure parts of OrchestrationRouter
\* ------------------------------------------------------------------------

\* The keys of agent_map in _execute_agent.
agent_map == {"knowledge_agent", "orders_agent", "tickets_agent"}

NoCall == [kind |-> "none"]

\* What the collaborator behind an action may answer; actions that call no
\* collaborator (mock data fetch, response generation, unknown type, unknown
\* agent) have nothing to wait for.
ActionReplies(action) ==
    IF action.action_type = "agent_call" /\ action.component \in agent_map
    THEN DomainAgentReplies(action.component)
    ELSE {NoCall}

ExecResult(success, data, error, recorded) ==
    [success |-> success, data |-> data, error |-> error, recorded |-> recorded]

\* OrchestrationRouter._execute_agent(context, action)
_execute_agent(action, reply) ==
    IF action.component \notin agent_map
    THEN ExecResult(FALSE, EmptyDict, <<"Agent ", action.component, " not found">>, TRUE)
    ELSE IF reply.kind = "raise"
    THEN ExecResult(FALSE, EmptyDict, reply.exception, FALSE)
    ELSE IF reply.success
    THEN ExecResult(TRUE, reply.data, NoText, TRUE)
    ELSE ExecResult(FALSE, EmptyDict, reply.error, TRUE)

\* OrchestrationRouter._execute_data_fetch(context, action)
_execute_data_fetch(action) ==
    IF action.component = "knowledge_base"
    THEN ExecResult(TRUE, [chunks |-> <<"Mock knowledge base content...">>], NoText, TRUE)
    ELSE IF action.component = "shopify"
    THEN ExecResult(TRUE, [order_id |-> NoText,
                           status   |-> Text("shipped"),
                           tracking |-> Text("TRACK123")], NoText, TRUE)
    ELSE ExecResult(TRUE, EmptyDict, NoText, TRUE)

\* OrchestrationRouter._execute_response_generation(context, action)
_execute_response_generation(action) ==
    ExecResult(TRUE, [response |-> Text("Response generated successfully")], NoText, TRUE)

\* OrchestrationRouter._execute_action(context, action): the result dict, and
\* whether add_agent_execution was reached (it is skipped when the call raised).
_execute_action(action, reply) ==
    IF action.action_type = "agent_call" THEN _execute_agent(action, reply)
    ELSE IF action.action_type = "data_fetch" THEN _execute_data_fetch(action)
    ELSE IF action.action_type = "response_generation"
    THEN _execute_response_generation(action)
    ELSE ExecResult(FALSE, EmptyDict,
                    <<"Unknown action type: ", action.action_type>>, TRUE)

\* OrchestrationRouter._create_clarification_response(context, ambiguity_check)
_create_clarification_response(c, ambiguity_check) ==
    [success                |-> TRUE,
     requires_clarification |-> TRUE,
     message                |-> ambiguity_check.clarification_question,
     ambiguity_score        |-> ambiguity_check.ambiguity_score,
     metadata               |-> [request_id |-> c.request_id,
                                 metrics    |-> get_metrics(c)]]

\* OrchestrationRouter._create_escalation_response(context, escalation_check)
_create_escalation_response(c, escalation_check) ==
    [success   |-> TRUE,
     escalated |-> TRUE,
     message   |-> Text("I'm connecting you with a human agent who can better assist you."),
     reason    |-> escalation_check.reason,
     urgency   |-> escalation_check.urgency,
     metadata  |-> [request_id |-> c.request_id,
                    metrics    |-> get_metrics(c)]]

\* The first result, in insertion order, that has the key (0 when none has).
FirstWith(execution_result, key) ==
    IF \E i \in DOMAIN execution_result : key \in DOMAIN execution_result[i][2]
    THEN CHOOSE i \in DOMAIN execution_result :
            /\ key \in DOMAIN execution_result[i][2]
            /\ \A j \in 1..(i - 1) : key \notin DOMAIN execution_result[j][2]
    ELSE 0

response_keys == <<"response_message", "answer", "user_response">>

\* The loops of _create_success_response over keys and results: the break
\* leaves the inner loop only, so each key in turn may overwrite the message.
RECURSIVE extract_response(_, _, _)
extract_response(execution_result, keys, response_message) ==
    IF keys = <<>> THEN response_message
    ELSE LET i == FirstWith(execution_result, Head(keys))
         IN  extract_response(execution_result, Tail(keys),
                IF i # 0 THEN execution_result[i][2][Head(keys)]
                ELSE response_message)

\* OrchestrationRouter._create_success_response(context, execution_result)
_create_success_response(c, execution_result, p) ==
    [success    |-> TRUE,
     message    |-> extract_response(execution_result, response_keys,
                                     Text("I've processed your request.")),
     intent     |-> c.current_intent,
     confidence |-> c.confidence_scores,
     metadata   |-> [request_id     |-> c.request_id,
                     trace_id       |-> c.trace_id,
                     metrics        |-> get_metrics(c),
                     execution_plan |-> IF c.execution_plan # None
                                        THEN Some(plan_to_dict(p)) ELSE Nothing]]

\* context.current_intent or "general" / or "unknown"
IntentOr(c, default) ==
    IF c.current_intent = None \/ c.current_intent = "" THEN default
    ELSE c.current_intent

\* OrchestrationRouter._create_error_response(context, error)
_create_error_response(c, error) ==
    [success  |-> FALSE,
     message  |-> get_fallback_response(IntentOr(c, "general")),
     error    |-> error,
     metadata |-> [request_id |-> c.request_id,
                   errors     |-> c.errors,
                   metrics    |-> get_metrics(c)]]

\* The order of the statements of process_request's try block: the step that
\* follows each step when it neither returns nor raises.
next_step_escalation_first(step) ==
    CASE step = "classify"         -> "ambiguity"
      [] step = "ambiguity"        -> "plan"
      [] step = "plan"             -> "check_escalation"
      [] step = "check_escalation" -> "execute"
      [] step = "execute"          -> "respond"
      [] step = "respond"          -> "returned"

next_step(step) ==
    CASE step = "classify"         -> "ambiguity"
      [] step = "ambiguity"        -> "plan"
      [] step = "plan"             -> "execute"
      [] step = "execute"          -> "check_escalation"
      [] step = "check_escalation" -> "respond"
      [] step = "respond"          -> "returned"

\* if ambiguity_check["requires_clarification"]: return ...
clarification_falls_through(ambiguity_check) == FALSE

clarification_returns(ambiguity_check) == ambiguity_check.requires_clarification

\* if escalation_check["should_escalate"]: return ...
escalation_falls_through(escalation_check) == FALSE

escalation_returns(escalation_check) == escalation_check.should_escalate

\* d.get(key, default)
DictGet(d, key, default) == IF key \in DOMAIN d THEN d[key] ELSE default

\* The except clause of process_request: the error is logged as critical
\* and the error response is built from the context.
ErrorReturn(c, f, exception) ==
    LET c2 == add_error(c, exception, "orchestration_router", "critical")
    IN  [ctx   |-> c2,
         frame |-> [f EXCEPT !.pc = "returned", !.outcome = "ERROR",
                             !.result = _create_error_response(c2, exception)]]

\* ------------------------------------------------------------------------
\* router.py: process_request, one action per step between suspension points
\* ------------------------------------------------------------------------

ConversationHistories == { <<>>, <<"user: hello", "assistant: hi">> }

UserMetadatas ==
    { EmptyDict,
      [order_id |-> Text("12345")],
      [order_id |-> Text("12345"), product_name |-> Text("kettle"),
       conversation_history |-> <<"user: hello">>] }

\* process_request is called: ContextBuilder.from_request builds the context.
StartWith(r, messages, histories, metadatas) ==
    /\ frame[r].pc = "idle"
    /\ \E user_message \in messages, history \in histories,
          user_metadata \in metadatas :
          ctx' = [ctx EXCEPT ![r] = from_request(r, user_message, history, user_metadata)]
    /\ frame' = [frame EXCEPT ![r].pc = "classify"]
    /\ UNCHANGED <<plan, obs>>
    /\ UNCHANGED standalone

Start(r) == StartWith(r, Messages, ConversationHistories, UserMetadatas)

\* _classify_intent up to its await: the intent agent is called.
CallClassifier(r) ==
    /\ frame[r].pc = "classify"
    /\ frame' = [frame EXCEPT ![r].pc = "classify_await"]
    /\ obs' = [obs EXCEPT ![r] =
                 Log(Enter(@, "CLASSIFY"), Event("call", 0, 0, "intent_agent", <<>>))]
    /\ UNCHANGED <<ctx, plan>>
    /\ UNCHANGED standalone

\* _classify_intent after its await: the context is updated from the result.
_classify_intent_silent(c, result) ==
    IF result.success
    THEN add_agent_execution(
             set_confidence([c EXCEPT !.current_intent = result.data["intent"]],
                            "intent", result.confidence),
             "intent_agent", LatencyTick,
             DictGet(result.metadata, "tokens_used", 0),
             DictGet(result.metadata, "cost", 0))
    ELSE c

_classify_intent(c, result) ==
    IF result.success
    THEN add_agent_execution(
             set_confidence([c EXCEPT !.current_intent = result.data["intent"]],
                            "intent", result.confidence),
             "intent_agent", LatencyTick,
             DictGet(result.metadata, "tokens_used", 0),
             DictGet(result.metadata, "cost", 0))
    ELSE add_error(c, result.error, "intent_agent", "error")

ClassifierReturnsFrom(r, replies) ==
    /\ frame[r].pc = "classify_await"
    /\ \E reply \in replies :
          LET c == [ctx[r] EXCEPT !.elapsed = @ + LatencyTick]
          IN  IF reply.kind = "raise"
              THEN LET e == ErrorReturn(c, frame[r], reply.exception)
                   IN  /\ ctx' = [ctx EXCEPT ![r] = e.ctx]
                       /\ frame' = [frame EXCEPT ![r] = e.frame]
                       /\ obs' = [obs EXCEPT ![r] =
                              Log(@, Event("raise", 0, 0, "classify", reply.exception))]
              ELSE /\ ctx' = [ctx EXCEPT ![r] = _classify_intent(c, reply)]
                   /\ frame' = [frame EXCEPT
                                  ![r].pc = next_step("classify"),
                                  ![r].intent_result =
                                      IF reply.success THEN reply.data ELSE EmptyDict]
                   /\ obs' = [obs EXCEPT ![r] =
                          Log(@, Event("classifier_reply", 0, 0,
                                       IF reply.success THEN "success" ELSE "failure",
                                       reply.error))]
    /\ UNCHANGED plan
    /\ UNCHANGED standalone

ClassifierReturns(r) == ClassifierReturnsFrom(r, IntentAgentReplies)

\* ', '.join(possible_intents) in detect_ambiguity raises TypeError when the
\* list has more than one entry and one of them is not a string.
JoinRaises(possible_intents) ==
    /\ possible_intents # Nothing
    /\ Len(possible_intents[1]) > 1
    /\ \E i \in DOMAIN possible_intents[1] : possible_intents[1][i] = None

\* context.confidence_scores.get("intent")
IntentConfidence(c) ==
    IF "intent" \in DOMAIN c.confidence_scores
    THEN Some(c.confidence_scores["intent"]) ELSE Nothing

\* intent_result.get("possible_intents")
PossibleIntents(intent_result) ==
    IF "possible_intents" \in DOMAIN intent_result
    THEN Some(intent_result["possible_intents"]) ELSE Nothing

\* _check_ambiguity, and the return of the clarification response when the
\* check asks for one.
CheckAmbiguity(r) ==
    /\ frame[r].pc = "ambiguity"
    /\ LET c == ctx[r]
           possible_intents == PossibleIntents(frame[r].intent_result)
           raised == Text("sequence item 1: expected str instance, NoneType found")
       IN  IF JoinRaises(possible_intents)
           THEN LET e == ErrorReturn(c, frame[r], raised)
                IN  /\ ctx' = [ctx EXCEPT ![r] = e.ctx]
                    /\ frame' = [frame EXCEPT ![r] = e.frame]
                    /\ obs' = [obs EXCEPT ![r] =
                          Log(Enter(@, "AMBIGUITY_CHECK"),
                              Event("raise", 0, 0, "ambiguity", raised))]
           ELSE LET ambiguity_check ==
                        analyze_and_resolve(c.user_message, IntentConfidence(c),
                                            possible_intents, c.user_metadata)
                    c2 == IF ambiguity_check.requires_clarification
                          THEN [c EXCEPT
                                  !.requires_clarification = TRUE,
                                  !.clarification_question =
                                      ambiguity_check.clarification_question]
                          ELSE c
                IN  /\ ctx' = [ctx EXCEPT ![r] = c2]
                    /\ obs' = [obs EXCEPT ![r] = Enter(@, "AMBIGUITY_CHECK")]
                    /\ IF clarification_returns(ambiguity_check)
                       THEN frame' = [frame EXCEPT
                                ![r].pc = "returned",
                                ![r].outcome = "CLARIFICATION",
                                ![r].result =
                                    _create_clarification_response(c2, ambiguity_check)]
                       ELSE frame' = [frame EXCEPT ![r].pc = next_step("ambiguity")]
    /\ UNCHANGED plan
    /\ UNCHANGED standalone

\* _create_execution_plan and context.execution_plan = execution_plan
CreatePlan_shared(r) ==
    /\ frame[r].pc = "plan"
    /\ plan' = [q \in RequestIds |-> build_for_intent(IntentOr(ctx[r], "unknown"))]
    /\ ctx' = [ctx EXCEPT ![r].execution_plan = "plan"]
    /\ frame' = [frame EXCEPT ![r].pc = next_step("plan")]
    /\ obs' = [obs EXCEPT ![r] =
                 Log(Enter(@, "PLAN"), Event("build_plan", 0, 0, "", <<>>))]
    /\ UNCHANGED standalone

CreatePlan(r) ==
    /\ frame[r].pc = "plan"
    /\ plan' = [plan EXCEPT ![r] = build_for_intent(IntentOr(ctx[r], "unknown"))]
    /\ ctx' = [ctx EXCEPT ![r].execution_plan = "plan"]
    /\ frame' = [frame EXCEPT ![r].pc = next_step("plan")]
    /\ obs' = [obs EXCEPT ![r] =
                 Log(Enter(@, "PLAN"), Event("build_plan", 0, 0, "", <<>>))]
    /\ UNCHANGED standalone

\* ------------------------------------------------------------------------
\* router.py: _execute_plan
\* ------------------------------------------------------------------------

\* _execute_plan is entered: results = {}, iteration = 0.
ExecutePlanEntry(r) ==
    /\ frame[r].pc = "execute"
    /\ frame' = [frame EXCEPT ![r].pc = "exec_loop",
                              ![r].results = <<>>,
                              ![r].iteration = 0]
    /\ obs' = [obs EXCEPT ![r] = Enter(@, "EXECUTE")]
    /\ UNCHANGED <<ctx, plan>>
    /\ UNCHANGED standalone

\* The while test of _execute_plan with the frontier computed at the top of
\* the body: the loop is left when the plan is complete, the cap is reached
\* or nothing is ready; otherwise the for loop over the frontier starts.
RoundContinues_uncapped(p, iteration) == ~is_complete(p.actions)

\* The cap allowing one round more.
RoundContinues_one_more(p, iteration) ==
    ~is_complete(p.actions) /\ iteration <= max_iterations

RoundContinues(p, iteration) ==
    ~is_complete(p.actions) /\ iteration < max_iterations

ExecLoop(r) ==
    /\ frame[r].pc = "exec_loop"
    /\ LET next_actions == get_next_actions(plan[r].actions)
       IN  IF RoundContinues(plan[r], frame[r].iteration) /\ next_actions # <<>>
           THEN /\ frame' = [frame EXCEPT ![r].pc = "exec_for",
                                          ![r].next_actions = next_actions,
                                          ![r].idx = 1]
                /\ obs' = [obs EXCEPT ![r] =
                             Log(@, Event("frontier", frame[r].iteration, 0, "",
                                          next_actions))]
           ELSE /\ frame' = [frame EXCEPT ![r].pc = next_step("execute")]
                /\ obs' = [obs EXCEPT ![r] =
                             Log(@, Event("exec_return", frame[r].iteration, 0, "", <<>>))]
    /\ UNCHANGED <<ctx, plan>>
    /\ UNCHANGED standalone

\* The for loop takes the next action of the frontier and awaits
\* _execute_action on it.
DispatchAction(r) ==
    /\ frame[r].pc = "exec_for"
    /\ frame[r].idx <= Len(frame[r].next_actions)
    /\ frame' = [frame EXCEPT ![r].pc = "exec_await"]
    /\ obs' = [obs EXCEPT ![r] =
                 Log(@, Event("dispatch", frame[r].iteration,
                              frame[r].next_actions[frame[r].idx], "", <<>>))]
    /\ UNCHANGED <<ctx, plan>>
    /\ UNCHANGED standalone

\* After a failed required action: break (leave the for loop).
AfterRequiredFailure_continue(f) ==
    [f EXCEPT !.idx = @ + 1,
              !.pc = IF f.idx + 1 > Len(f.next_actions)
                     THEN "exec_round_end" ELSE "exec_for"]

AfterRequiredFailure(f) == [f EXCEPT !.pc = "exec_round_end"]

\* _execute_action returns and the body of the for loop handles the result.
ActionReturnsFrom(r, replies) ==
    /\ frame[r].pc = "exec_await"
    /\ LET a      == frame[r].next_actions[frame[r].idx]
           action == plan[r].actions[a]
           f      == frame[r]
           advance == [f EXCEPT !.idx = @ + 1,
                                !.pc = IF f.idx + 1 > Len(f.next_actions)
                                       THEN "exec_round_end" ELSE "exec_for"]
       IN  \E reply \in ActionReplies(action) \cap replies :
             LET res == _execute_action(action, reply)
                 c0  == [ctx[r] EXCEPT !.elapsed = @ + LatencyTick]
                 c   == IF res.recorded
                        THEN add_agent_execution(c0, action.component, LatencyTick, 0, 0)
                        ELSE c0
             IN  IF res.success
                 THEN /\ plan' = [plan EXCEPT ![r].actions[a] = mark_completed(@, res.data)]
                      /\ frame' = [frame EXCEPT ![r] =
                            [advance EXCEPT !.results =
                                OrderedSet(@, action.action_id, res.data)]]
                      /\ ctx' = [ctx EXCEPT ![r] = c]
                      /\ obs' = [obs EXCEPT ![r] =
                            Log(@, Event("resolve", f.iteration, a, "completed", <<>>))]
                 ELSE IF action.required
                 THEN /\ plan' = [plan EXCEPT ![r].actions[a] = mark_failed(@, res.error)]
                      /\ ctx' = [ctx EXCEPT ![r] =
                            add_error(c, res.error, action.component, "error")]
                      /\ frame' = [frame EXCEPT ![r] = AfterRequiredFailure(f)]
                      /\ obs' = [obs EXCEPT ![r] =
                            Log(@, Event("resolve", f.iteration, a, "failed", res.error))]
                 ELSE /\ plan' = [plan EXCEPT ![r].actions[a] = mark_skipped(@)]
                      /\ ctx' = [ctx EXCEPT ![r] = c]
                      /\ frame' = [frame EXCEPT ![r] = advance]
                      /\ obs' = [obs EXCEPT ![r] =
                            Log(@, Event("resolve", f.iteration, a, "skipped", res.error))]
    /\ UNCHANGED standalone

\* Everything a call made for an action may answer.
AnyActionReply ==
    UNION {DomainAgentReplies(component) : component \in agent_map} \cup {NoCall}

ActionReturns(r) == ActionReturnsFrom(r, AnyActionReply)

\* iteration += 1 at the end of the while body.
EndRound(r) ==
    /\ frame[r].pc = "exec_round_end"
    /\ frame' = [frame EXCEPT ![r].pc = "exec_loop", ![r].iteration = @ + 1]
    /\ UNCHANGED <<ctx, plan, obs>>
    /\ UNCHANGED standalone

\* ------------------------------------------------------------------------
\* router.py: escalation check and responses
\* ------------------------------------------------------------------------

\* _check_escalation up to its await: the escalation agent is called.
CallEscalation(r) ==
    /\ frame[r].pc = "check_escalation"
    /\ frame' = [frame EXCEPT ![r].pc = "escalation_await"]
    /\ obs' = [obs EXCEPT ![r] =
                 Log(Enter(@, "ESCALATION_CHECK"),
                     Event("call", 0, 0, "escalation_agent", <<>>))]
    /\ UNCHANGED <<ctx, plan>>
    /\ UNCHANGED standalone

\* result.success and result.data.get("should_escalate")
ShouldEscalate(reply) ==
    reply.success /\ DictGet(reply.data, "should_escalate", FALSE)

\* _check_escalation after its await, and the return of the escalation
\* response on an escalate verdict.
EscalationReturnsFrom(r, replies) ==
    /\ frame[r].pc = "escalation_await"
    /\ \E reply \in replies :
          LET c == [ctx[r] EXCEPT !.elapsed = @ + LatencyTick]
          IN  IF reply.kind = "raise"
              THEN LET e == ErrorReturn(c, frame[r], reply.exception)
                   IN  /\ ctx' = [ctx EXCEPT ![r] = e.ctx]
                       /\ frame' = [frame EXCEPT ![r] = e.frame]
                       /\ obs' = [obs EXCEPT ![r] =
                              Log(@, Event("raise", 0, 0, "check_escalation",
                                           reply.exception))]
              ELSE LET reason == DictGet(reply.data, "reason", NoText)
                       escalation_check ==
                           IF ShouldEscalate(reply)
                           THEN [should_escalate |-> TRUE,
                                 reason          |-> reason,
                                 urgency         |-> DictGet(reply.data, "urgency", None)]
                           ELSE [should_escalate |-> FALSE]
                       c2 == IF ShouldEscalate(reply)
                             THEN [c EXCEPT !.escalate_to_human = TRUE,
                                            !.escalation_reason = reason]
                             ELSE c
                   IN  /\ ctx' = [ctx EXCEPT ![r] = c2]
                       /\ obs' = [obs EXCEPT ![r] =
                              Log(@, Event("evaluator_reply", 0, 0,
                                     IF ~reply.success THEN "failure"
                                     ELSE IF "should_escalate" \in DOMAIN reply.data
                                             /\ reply.data["should_escalate"]
                                     THEN "success_escalate"
                                     ELSE "success_proceed",
                                     reason))]
                       /\ IF escalation_returns(escalation_check)
                          THEN frame' = [frame EXCEPT
                                 ![r].pc = "returned",
                                 ![r].outcome = "ESCALATED",
                                 ![r].result =
                                     _create_escalation_response(c2, escalation_check)]
                          ELSE frame' = [frame EXCEPT
                                 ![r].pc = next_step("check_escalation")]
    /\ UNCHANGED plan
    /\ UNCHANGED standalone

EscalationReturns(r) == EscalationReturnsFrom(r, EscalationAgentReplies)

\* _create_success_response is built and returned.
Respond(r) ==
    /\ frame[r].pc = "respond"
    /\ frame' = [frame EXCEPT
           ![r].pc = next_step("respond"),
           ![r].outcome = "SUCCESS",
           ![r].result = _create_success_response(ctx[r], frame[r].results, plan[r])]
    /\ obs' = [obs EXCEPT ![r] =
                 Log(Enter(@, "RESPOND"), Event("extract", 0, 0, "", <<>>))]
    /\ UNCHANGED <<ctx, plan>>
    /\ UNCHANGED standalone

\* ------------------------------------------------------------------------
\* Specification Spec: one caller, one process_request call
\* ------------------------------------------------------------------------

Init ==
    /\ ctx = [r \in RequestIds |-> from_request(r, None, <<>>, EmptyDict)]
    /\ plan = [r \in RequestIds |-> NoPlan]
    /\ frame = [r \in RequestIds |-> InitialFrame]
    /\ obs = [r \in RequestIds |-> InitialObs]
    /\ call = NoDirectCall
    /\ aggregator = DefaultConfidenceAggregator
    /\ strategy = DisambiguationStrategy
    /\ limiter = RateLimitMiddleware(RequestsPerMinute)
    /\ traffic = NoTraffic

Next ==
    \E r \in SingleCaller :
        \/ Start(r)
        \/ CallClassifier(r)
        \/ ClassifierReturns(r)
        \/ CheckAmbiguity(r)
        \/ CreatePlan(r)
        \/ ExecutePlanEntry(r)
        \/ ExecLoop(r)
        \/ DispatchAction(r)
        \/ ActionReturns(r)
        \/ EndRound(r)
        \/ CallEscalation(r)
        \/ EscalationReturns(r)
        \/ Respond(r)

Spec == Init /\ [][Next]_vars

\* ------------------------------------------------------------------------
\* Specification SpecPlan: _execute_plan called on a plan of the caller's
\* making (as a test of the engine does), well formed or not
\* ------------------------------------------------------------------------

IdTable ==
    <<"a1", "a2", "a3", "a4", "a5", "a6", "a7", "a8", "a9", "a10", "a11", "a12">>

\* Dependency lists over the plan's own ids and one id that names no action.
DepSets(n) == SUBSET ({IdTable[i] : i \in 1..n} \cup {"no_such_action"})

\* Every plan of n agent-call actions: each required or optional, each with
\* any dependency list (self-references, cycles, dangling ids included).
FreePlans(n) ==
    { ExecutionPlan("plan_test", "test",
        [i \in 1..n |-> Action(IdTable[i], "agent_call", "tickets_agent",
                               choice[i][1], choice[i][2])]) :
        choice \in [1..n -> DepSets(n) \X BOOLEAN] }

\* A valid chain one action longer than the round cap.
LongChainPlan ==
    ExecutionPlan("plan_chain", "test",
        [i \in 1..(max_iterations + 1) |->
            Action(IdTable[i], "agent_call", "tickets_agent",
                   IF i = 1 THEN {} ELSE {IdTable[i - 1]}, TRUE)])

BuilderPlans == { build_for_intent(intent) : intent \in IntentStrings }

\* An optional action ahead of a required one in the first frontier, and a
\* third action that becomes ready in the second round.
OptionalFirstPlan ==
    ExecutionPlan("plan_optional", "test",
        << Action("a1", "agent_call", "tickets_agent", {}, FALSE),
           Action("a2", "agent_call", "tickets_agent", {}, TRUE),
           Action("a3", "agent_call", "tickets_agent", {"a2"}, TRUE) >>)

\* The same plan with retry_on_failure = True and max_retries = 2 on every
\* action.
WithRetries(p) ==
    [p EXCEPT !.actions =
        [i \in DOMAIN p.actions |->
            [p.actions[i] EXCEPT !.retry_on_failure = TRUE, !.max_retries = 2]]]

RetryFlags == BOOLEAN

FixedPlans == BuilderPlans \cup {LongChainPlan, OptionalFirstPlan}

\* The plans _execute_plan is run on: every free plan, without and with
\* retry flags, and the fixed ones.
PlanInputs ==
    { IF retry THEN WithRetries(p) ELSE p :
        p \in FreePlans(MaxActions), retry \in RetryFlags } \cup FixedPlans

InitPlan ==
    /\ ctx = [r \in RequestIds |->
                IF r \in SingleCaller
                THEN from_request(r, "Tell me about your store hours today",
                                  <<>>, EmptyDict)
                ELSE from_request(r, None, <<>>, EmptyDict)]
    /\ \/ \E p \in FreePlans(MaxActions), retry \in RetryFlags :
             plan = [r \in RequestIds |->
                       IF r \in SingleCaller
                       THEN IF retry THEN WithRetries(p) ELSE p
                       ELSE NoPlan]
       \/ \E p \in FixedPlans :
             plan = [r \in RequestIds |-> IF r \in SingleCaller THEN p ELSE NoPlan]
    /\ frame = [r \in RequestIds |->
                  IF r \in SingleCaller
                  THEN [InitialFrame EXCEPT !.pc = "execute"]
                  ELSE InitialFrame]
    /\ obs = [r \in RequestIds |-> InitialObs]
    /\ call = NoDirectCall
    /\ aggregator = DefaultConfidenceAggregator
    /\ strategy = DisambiguationStrategy
    /\ limiter = RateLimitMiddleware(RequestsPerMinute)
    /\ traffic = NoTraffic

NextPlan ==
    \E r \in SingleCaller :
        \/ ExecutePlanEntry(r)
        \/ ExecLoop(r)
        \/ DispatchAction(r)
        \/ ActionReturns(r)
        \/ EndRound(r)

SpecPlan == InitPlan /\ [][NextPlan]_vars

\* _execute_plan awaits its collaborators one at a time and runs on when each
\* returns: a call that returns lets the loop take its next step.
FairSpecPlan == SpecPlan /\ WF_vars(NextPlan)

\* ------------------------------------------------------------------------
\* Observations used by the properties
\* ------------------------------------------------------------------------

IsPrefix(s, t) == Len(s) <= Len(t) /\ \A i \in DOMAIN s : s[i] = t[i]

Prefix(s, n) == SubSeq(s, 1, n)

\* Positions of the log of request r that hold an event of the kind.
EventsOf(r, ev) == {i \in DOMAIN obs[r].log : obs[r].log[i].ev = ev}

\* The plan positions dispatched for request r so far.
Dispatched(r) == {obs[r].log[i].action : i \in EventsOf(r, "dispatch")}

Returned(r) == frame[r].pc = "returned"

\* Every step of a call that has not returned is enabled by its position
\* alone, except the for loop's, which needs an action left in the frontier.
CanStep(r) ==
    frame[r].pc = "exec_for" => frame[r].idx <= Len(frame[r].next_actions)

\* _execute_plan has returned to its caller.
ExecReturned(r) == EventsOf(r, "exec_return") # {}

\* ------------------------------------------------------------------------
\* C1
\* ------------------------------------------------------------------------

\* C1: in every call of process_request the stages entered so far are an
\* initial part of CLASSIFY, AMBIGUITY_CHECK, PLAN, EXECUTE,
\* ESCALATION_CHECK, RESPOND (so none is repeated, skipped over or entered
\* out of order); a call that has not returned has no outcome and can take
\* its next step; a call that has returned has exactly one of the four
\* terminal outcomes, CLARIFICATION after exactly the first two stages,
\* ESCALATED after exactly the first five, SUCCESS after all six, and ERROR
\* after a stage raised.
C1_StagesInOrderOneOutcome ==
    \A r \in SingleCaller :
        LET st == obs[r].stages
        IN  /\ IsPrefix(st, StageOrder)
            /\ ~Returned(r) =>
                  /\ frame[r].outcome = None
                  /\ CanStep(r)
            /\ Returned(r) =>
                  /\ frame[r].outcome \in Terminals
                  /\ frame[r].outcome = "CLARIFICATION" => st = Prefix(StageOrder, 2)
                  /\ frame[r].outcome = "ESCALATED" => st = Prefix(StageOrder, 5)
                  /\ frame[r].outcome = "SUCCESS" => st = StageOrder
                  /\ frame[r].outcome = "ERROR" <=> EventsOf(r, "raise") # {}

\* A call that went through all six stages and returned SUCCESS.
C1_Witness ==
    \E r \in SingleCaller :
        Returned(r) /\ frame[r].outcome = "SUCCESS" /\ obs[r].stages = StageOrder

\* ------------------------------------------------------------------------
\* C2 - C6: the execution-plan engine
\* ------------------------------------------------------------------------

\* The ids of the completed actions of request r's plan.
CompletedIds(r) ==
    {plan[r].actions[i].action_id :
        i \in {j \in DOMAIN plan[r].actions : plan[r].actions[j].status = "completed"}}

DepsCompleted(r, i) == plan[r].actions[i].depends_on \subseteq CompletedIds(r)

\* The action the for loop is awaiting.
InFlight(r) == frame[r].next_actions[frame[r].idx]

\* C2: an action is in flight (dispatched, not yet resolved) only with
\* status pending and every dependency id completed; every completed action
\* has all its dependencies completed; and get_next_actions() is, in list
\* order, exactly the pending actions whose dependencies are all completed.
C2_DispatchOnlyWhenReady ==
    \A r \in SingleCaller :
        LET actions == plan[r].actions
            next    == get_next_actions(actions)
        IN  /\ frame[r].pc = "exec_await" =>
                  /\ actions[InFlight(r)].status = "pending"
                  /\ DepsCompleted(r, InFlight(r))
            /\ \A i \in DOMAIN actions :
                  actions[i].status = "completed" => DepsCompleted(r, i)
            /\ Range(next) =
                  {i \in DOMAIN actions :
                      actions[i].status = "pending" /\ DepsCompleted(r, i)}
            /\ \A j, k \in DOMAIN next : j < k => next[j] < next[k]

\* An action with a dependency is in flight, its dependency completed.
C2_Witness ==
    \E r \in SingleCaller :
        /\ frame[r].pc = "exec_await"
        /\ plan[r].actions[InFlight(r)].depends_on # {}
        /\ DepsCompleted(r, InFlight(r))

\* The plan positions that depend on position i, directly or through others.
RECURSIVE DependentsFrom(_, _, _)
DependentsFrom(actions, found, k) ==
    LET more == {j \in DOMAIN actions :
                    \E i \in found : actions[i].action_id \in actions[j].depends_on}
    IN  IF k = 0 \/ more \subseteq found THEN found \cup more
        ELSE DependentsFrom(actions, found \cup more, k - 1)

Dependents(actions, i) ==
    DependentsFrom(actions,
                   {j \in DOMAIN actions : actions[i].action_id \in actions[j].depends_on},
                   Len(actions))

FailedRequired(r) ==
    {i \in DOMAIN plan[r].actions :
        plan[r].actions[i].required /\ plan[r].actions[i].status = "failed"}

\* C3: from the moment a required action has failed, has_failed() is true,
\* is_complete() is false, and every action that depends on the failed one,
\* directly or transitively, is pending and has never been dispatched.
C3_FailedRequiredBlocksDependents ==
    \A r \in SingleCaller :
        \A i \in FailedRequired(r) :
            /\ has_failed(plan[r].actions)
            /\ ~is_complete(plan[r].actions)
            /\ \A d \in Dependents(plan[r].actions, i) :
                  /\ plan[r].actions[d].status = "pending"
                  /\ d \notin Dispatched(r)

\* _execute_plan has returned after a required action failed that has a
\* dependent and a dependent of that dependent.
C3_Witness ==
    \E r \in SingleCaller :
        /\ ExecReturned(r)
        /\ \E i \in FailedRequired(r) :
              \E d \in Dependents(plan[r].actions, i) :
                  plan[r].actions[i].action_id \notin plan[r].actions[d].depends_on

\* C4 (as claimed): once a required action has failed, no action of the plan
\* is dispatched any more.
C4_NoDispatchAfterRequiredFailure ==
    \A r \in SingleCaller :
        \A i, j \in DOMAIN obs[r].log :
            /\ obs[r].log[i].ev = "resolve"
            /\ obs[r].log[i].info = "failed"
            /\ obs[r].log[j].ev = "dispatch"
            => j < i

\* The actions dispatched in the current round, in dispatch order.
RoundDispatch(r) ==
    LET at == {i \in EventsOf(r, "dispatch") :
                  obs[r].log[i].round = frame[r].iteration}
        marks == [i \in DOMAIN obs[r].log |-> i \in at]
        where == IndicesWhere(marks, 1, Len(obs[r].log))
    IN  [k \in DOMAIN where |-> obs[r].log[where[k]].action]

Resolved(r, i) == plan[r].actions[i].status \in {"completed", "failed", "skipped"}

\* Nothing is in flight when a frontier is computed: every action dispatched
\* so far has resolved to completed, failed or skipped.
FrontierAfterResolution(r) ==
    frame[r].pc \in {"exec_loop", "exec_round_end"} =>
        \A i \in Dispatched(r) : Resolved(r, i)

\* C5 (as claimed): at the end of every round the whole frontier computed at
\* its start has been dispatched in it, and the next frontier is computed
\* only after everything dispatched has resolved.
C5_WholeFrontierDispatched ==
    \A r \in SingleCaller :
        /\ frame[r].pc = "exec_round_end" =>
              RoundDispatch(r) = frame[r].next_actions
        /\ FrontierAfterResolution(r)

\* C5 (amended): in every round the frontier computed at its start is
\* dispatched in list order, one action at a time, up to and including the
\* first required action that fails; it is dispatched whole when no required
\* action fails in the round; and the next frontier is computed only after
\* everything dispatched has resolved.
C5_FrontierDispatchedUpToRequiredFailure ==
    \A r \in SingleCaller :
        /\ frame[r].pc = "exec_round_end" =>
              LET done == RoundDispatch(r)
                  n    == Len(done)
              IN  /\ n >= 1
                  /\ done = Prefix(frame[r].next_actions, n)
                  /\ \A k \in 1..(n - 1) : done[k] \notin FailedRequired(r)
                  /\ n < Len(frame[r].next_actions) => done[n] \in FailedRequired(r)
        /\ FrontierAfterResolution(r)

\* A round ends with a failed required action and a frontier member after it
\* that was not dispatched in the round.
C5_Witness ==
    \E r \in SingleCaller :
        /\ frame[r].pc = "exec_round_end"
        /\ Len(RoundDispatch(r)) < Len(frame[r].next_actions)

\* A required action that lists itself as a dependency.
SelfReferentialRequired(r) ==
    \E i \in DOMAIN plan[r].actions :
        /\ plan[r].actions[i].required
        /\ plan[r].actions[i].action_id \in plan[r].actions[i].depends_on

\* C6: for every plan (self-references, cycles and dangling dependency ids
\* included) _execute_plan returns, provided each collaborator call returns;
\* it never runs more than max_iterations rounds; and with a self-referential
\* required action the plan is not complete when it returns.
C6_TerminatesWithinCap ==
    \A r \in SingleCaller :
        /\ <>ExecReturned(r)
        /\ [](frame[r].iteration <= max_iterations)
        /\ [](ExecReturned(r) /\ SelfReferentialRequired(r)
                => ~is_complete(plan[r].actions))

\* _execute_plan has returned on a plan with a self-referential required
\* action.
C6_Witness ==
    \E r \in SingleCaller : ExecReturned(r) /\ SelfReferentialRequired(r)

\* ------------------------------------------------------------------------
\* C7 - C10: the short circuits and the shape of the result
\* ------------------------------------------------------------------------

\* The request's message was classified with the given confidence and the
\* ambiguity check has run.
CheckedWith(r, user_message, confidence) ==
    /\ Len(obs[r].stages) >= 2
    /\ ctx[r].user_message = user_message
    /\ IntentConfidence(ctx[r]) = Some(confidence)

\* C7: once the ambiguity check has asked for clarification, process_request
\* has returned a result with requires_clarification true whose message is
\* the clarification question; no plan was built, no action dispatched, the
\* escalation agent was not called, and the only errors on the context are
\* the intent agent's. "Where is my order #12345?" classified with
\* confidence 0.2 always ends in this way unless the check itself raises.
C7_ClarificationShortCircuits ==
    \A r \in SingleCaller :
        /\ ctx[r].requires_clarification =>
              /\ Returned(r)
              /\ frame[r].outcome = "CLARIFICATION"
              /\ "requires_clarification" \in DOMAIN frame[r].result
              /\ frame[r].result.requires_clarification
              /\ frame[r].result.message = ctx[r].clarification_question
              /\ plan[r] = NoPlan
              /\ ctx[r].execution_plan = None
              /\ EventsOf(r, "build_plan") = {}
              /\ EventsOf(r, "dispatch") = {}
              /\ \A i \in DOMAIN obs[r].log :
                    obs[r].log[i].info # "escalation_agent"
              /\ \A i \in DOMAIN ctx[r].errors :
                    ctx[r].errors[i].component = "intent_agent"
        /\ CheckedWith(r, "Where is my order #12345?", 20) =>
              /\ Returned(r)
              /\ frame[r].outcome \in {"CLARIFICATION", "ERROR"}
              /\ frame[r].outcome = "ERROR" <=> EventsOf(r, "raise") # {}

\* "Where is my order #12345?", classified with confidence 0.2, has come
\* back as a request for clarification.
C7_Witness ==
    \E r \in SingleCaller :
        /\ CheckedWith(r, "Where is my order #12345?", 20)
        /\ frame[r].outcome = "CLARIFICATION"
        /\ frame[r].result.requires_clarification

\* The evaluator's replies seen so far.
EvaluatorReplies(r) == EventsOf(r, "evaluator_reply")

EscalateVerdict(r) ==
    \E i \in EvaluatorReplies(r) : obs[r].log[i].info = "success_escalate"

HandOffMessage == Text("I'm connecting you with a human agent who can better assist you.")

\* C8: the escalation agent is called only after _execute_plan has returned
\* (no action is dispatched or resolved afterwards); when it replies success
\* with should_escalate true, process_request has returned escalated = true
\* with the fixed hand-off message, the context has escalate_to_human set
\* and escalation_reason equal to the reply's reason, and the success
\* response was never built; without that reply nothing is escalated.
C8_EscalationAfterExecution ==
    \A r \in SingleCaller :
        /\ \A i \in DOMAIN obs[r].log :
              obs[r].log[i].info = "escalation_agent" =>
                  /\ \E j \in EventsOf(r, "exec_return") : j < i
                  /\ \A j \in DOMAIN obs[r].log :
                        obs[r].log[j].ev \in {"frontier", "dispatch", "resolve"}
                            => j < i
        /\ EscalateVerdict(r) =>
              /\ Returned(r)
              /\ frame[r].outcome = "ESCALATED"
              /\ frame[r].result.success
              /\ frame[r].result.escalated
              /\ frame[r].result.message = HandOffMessage
              /\ ctx[r].escalate_to_human
              /\ \A i \in EvaluatorReplies(r) :
                    /\ ctx[r].escalation_reason = obs[r].log[i].data
                    /\ frame[r].result.reason = obs[r].log[i].data
              /\ EventsOf(r, "extract") = {}
              /\ "RESPOND" \notin Range(obs[r].stages)
        /\ ~EscalateVerdict(r) =>
              /\ ~ctx[r].escalate_to_human
              /\ frame[r].outcome # "ESCALATED"

\* A request has been escalated with a reason given by the evaluator.
C8_Witness ==
    \E r \in SingleCaller :
        /\ frame[r].outcome = "ESCALATED"
        /\ EscalateVerdict(r)
        /\ ctx[r].escalation_reason # NoText
        /\ EventsOf(r, "dispatch") # {}

\* The text the error response must carry for the intent on the context.
ExpectedFallback(r) ==
    CASE ctx[r].current_intent = "order_status" ->
            Text("I'm having trouble accessing order information right now. Please email support@example.com with your order number, and we'll help you immediately.")
      [] ctx[r].current_intent = "product_info" ->
            Text("I'm unable to retrieve product details at the moment. Please visit our website or contact support for product information.")
      [] ctx[r].current_intent = "ticket_creation" ->
            Text("I can't create a ticket right now, but you can email support@example.com and our team will help you.")
      [] OTHER ->
            Text("I'm experiencing technical difficulties. Please try again in a moment, or contact support@example.com for immediate assistance.")

CriticalErrors(r) ==
    {i \in DOMAIN ctx[r].errors : ctx[r].errors[i].severity = "critical"}

\* C9: when a stage of process_request raises, the call has returned (the
\* exception does not propagate) with success = false, the fallback text of
\* the classified intent (the general text when no intent was classified or
\* the intent has no entry), and the exception's text as error; exactly one
\* error of severity critical, carrying that text, is on the context. No
\* other request has a critical error or success = false.
C9_ExceptionsBecomeErrorResults ==
    \A r \in SingleCaller :
        /\ \A i \in EventsOf(r, "raise") :
              /\ Returned(r)
              /\ frame[r].outcome = "ERROR"
              /\ frame[r].result.success = FALSE
              /\ frame[r].result.message = ExpectedFallback(r)
              /\ frame[r].result.error = obs[r].log[i].data
              /\ Cardinality(CriticalErrors(r)) = 1
              /\ \A e \in CriticalErrors(r) :
                    /\ ctx[r].errors[e].error = obs[r].log[i].data
                    /\ ctx[r].errors[e].component = "orchestration_router"
                    /\ e = Len(ctx[r].errors)
        /\ EventsOf(r, "raise") = {} =>
              /\ CriticalErrors(r) = {}
              /\ Returned(r) => frame[r].result.success

\* A request classified as order_status has ended in an error result after
\* the ambiguity check or the escalation check raised.
C9_Witness ==
    \E r \in SingleCaller :
        /\ frame[r].outcome = "ERROR"
        /\ ctx[r].current_intent = "order_status"
        /\ frame[r].result.message = Text(fallback_responses["order_status"])

MetricKeys ==
    {"elapsed_time_ms", "agents_executed", "agent_latencies", "total_tokens",
     "total_cost_usd", "error_count"}

\* C10 (as claimed): every returned result carries success, message and a
\* metadata record with request_id, trace_id and metrics (elapsed time,
\* agents executed, per-agent latency, total tokens, total cost, error
\* count).
C10_ResultWellFormed ==
    \A r \in SingleCaller :
        Returned(r) =>
            /\ {"success", "message", "metadata"} \subseteq DOMAIN frame[r].result
            /\ {"request_id", "trace_id", "metrics"}
                   \subseteq DOMAIN frame[r].result.metadata
            /\ MetricKeys \subseteq DOMAIN frame[r].result.metadata.metrics

\* ------------------------------------------------------------------------
\* C11 - C17: the pipeline's handling of collaborator outcomes
\* ------------------------------------------------------------------------

\* The classifier answered the message with the given intent and confidence
\* and no candidate intents; the caller passed no user metadata.
ClassifiedPlainly(r, user_message, intent, confidence) ==
    /\ ctx[r].user_message = user_message
    /\ ctx[r].user_metadata = EmptyDict
    /\ ctx[r].current_intent = intent
    /\ IntentConfidence(ctx[r]) = Some(confidence)
    /\ PossibleIntents(frame[r].intent_result) = Nothing

\* No action of the request's plan failed or was skipped, no stage raised
\* and the evaluator gave no escalate verdict.
AllWentWell(r) ==
    /\ \A i \in DOMAIN obs[r].log :
          /\ obs[r].log[i].ev # "raise"
          /\ obs[r].log[i].ev = "resolve" => obs[r].log[i].info = "completed"
    /\ ~EscalateVerdict(r)

\* C11 (as claimed): "Where is my order #12345?" without user metadata,
\* classified order_status with confidence 0.95 and no candidates, with every
\* action succeeding and no escalate verdict, returns success = true with a
\* non-empty message and agents_executed >= 2, and not a clarification.
C11_OrderQuestionSucceeds ==
    \A r \in SingleCaller :
        /\ ClassifiedPlainly(r, "Where is my order #12345?", "order_status", 95)
        /\ AllWentWell(r)
        /\ Returned(r)
        => /\ frame[r].outcome = "SUCCESS"
           /\ frame[r].result.success
           /\ frame[r].result.message # NoText
           /\ frame[r].result.metadata.metrics.agents_executed >= 2
           /\ "requires_clarification" \notin DOMAIN frame[r].result

\* The positions of the context's errors tagged with a component.
ErrorsTagged(r, component) ==
    {i \in DOMAIN ctx[r].errors : ctx[r].errors[i].component = component}

\* The error text of each collaborator's success = false reply.
AgentFailure == Text("agent could not answer")

\* The events at which a collaborator called for the component returned
\* success = false: the intent agent, the agent behind an action (whether
\* the action then failed or was skipped), the escalation agent.
FailureReturns(r, component) ==
    {i \in DOMAIN obs[r].log :
        LET e == obs[r].log[i]
        IN  CASE e.ev = "classifier_reply" ->
                    component = "intent_agent" /\ e.info = "failure"
              [] e.ev = "resolve" ->
                    /\ e.info \in {"failed", "skipped"}
                    /\ e.data = AgentFailure
                    /\ plan[r].actions[e.action].component = component
              [] e.ev = "evaluator_reply" ->
                    component = "escalation_agent" /\ e.info = "failure"
              [] OTHER -> FALSE}

Collaborators == agent_map \cup {"intent_agent", "escalation_agent"}

\* C12 (as claimed): every success = false reply of a collaborator has put
\* an error tagged with that collaborator's component on the context, and
\* the result's error_count counts it.
C12_EveryFailureLogged ==
    \A r \in SingleCaller :
        /\ \A k \in Collaborators :
              Cardinality(ErrorsTagged(r, k)) >= Cardinality(FailureReturns(r, k))
        /\ Returned(r) =>
              frame[r].result.metadata.metrics.error_count
                  >= Cardinality(UNION {FailureReturns(r, k) : k \in Collaborators})

\* The intent agent answered the request with success = false.
ClassifierFailed(r) ==
    \E i \in EventsOf(r, "classifier_reply") : obs[r].log[i].info = "failure"

\* C13: after the classifier returned success = false the context's first
\* and only intent_agent error carries the classifier's error text; no
\* intent confidence, agent execution or latency is recorded for the
\* classifier; the intent is unset; neither classification nor the ambiguity
\* check raises; the call goes on to the ambiguity check and, unless that
\* asks for clarification, to a plan, and any plan built is the default one:
\* the single required response_generation action generate_fallback.
C13_ClassifierFailureTolerated ==
    \A r \in SingleCaller :
        ClassifierFailed(r) =>
            /\ ErrorsTagged(r, "intent_agent") = {1}
            /\ \A i \in EventsOf(r, "classifier_reply") :
                  ctx[r].errors[1].error = obs[r].log[i].data
            /\ IntentConfidence(ctx[r]) = Nothing
            /\ "intent_agent" \notin Range(ctx[r].executed_agents)
            /\ "intent_agent" \notin DOMAIN ctx[r].agent_latencies
            /\ ctx[r].current_intent = None
            /\ \A i \in EventsOf(r, "raise") :
                  obs[r].log[i].info = "check_escalation"
            /\ frame[r].pc \notin {"idle", "classify", "classify_await"}
            /\ Len(obs[r].stages) >= 3 =>
                  /\ EventsOf(r, "build_plan") # {}
                  /\ plan[r].plan_id = "plan_default"
                  /\ plan[r].intent = "unknown"
                  /\ Len(plan[r].actions) = 1
                  /\ plan[r].actions[1].action_id = "generate_fallback"
                  /\ plan[r].actions[1].action_type = "response_generation"
                  /\ plan[r].actions[1].depends_on = {}
                  /\ plan[r].actions[1].required
            /\ Returned(r) /\ frame[r].outcome # "CLARIFICATION" =>
                  Len(obs[r].stages) >= 3

\* A request whose classification failed has been answered from the default
\* plan.
C13_Witness ==
    \E r \in SingleCaller :
        /\ ClassifierFailed(r)
        /\ frame[r].outcome = "SUCCESS"
        /\ plan[r].plan_id = "plan_default"
        /\ plan[r].actions[1].status = "completed"

\* The for loop has just handled the failure of the optional action that
\* was in flight for request r.
OptionalFailureHandled(r) ==
    /\ frame[r].pc = "exec_await"
    /\ frame'[r].pc # "exec_await"
    /\ ~plan[r].actions[InFlight(r)].required
    /\ plan'[r].actions[InFlight(r)].status # "completed"

\* The loop position after an action that does not break the for loop.
Advanced(f) ==
    [f EXCEPT !.idx = @ + 1,
              !.pc = IF f.idx + 1 > Len(f.next_actions)
                     THEN "exec_round_end" ELSE "exec_for"]

\* The resolve events that report a skipped action.
Skips(r) == {i \in EventsOf(r, "resolve") : obs[r].log[i].info = "skipped"}

\* The frontier of the round in which log entry i was written.
FrontierOf(r, i) ==
    LET at == CHOOSE j \in EventsOf(r, "frontier") :
                  obs[r].log[j].round = obs[r].log[i].round
    IN  obs[r].log[at].data

\* C14: when an optional action fails it is marked skipped; has_failed() and
\* is_complete() are what they were before; the for loop goes on to the next
\* action of the frontier (or ends the round after the last one); a skipped
\* action is never required and never counts in has_failed(); and every
\* round that can start with a skipped action in the plan does start, with
\* the whole ready frontier.
C14_OptionalFailureSkipped ==
    /\ [][\A r \in SingleCaller :
            OptionalFailureHandled(r) =>
                /\ plan'[r].actions[InFlight(r)].status = "skipped"
                /\ has_failed(plan'[r].actions) = has_failed(plan[r].actions)
                /\ is_complete(plan'[r].actions) = is_complete(plan[r].actions)
                /\ frame'[r] = Advanced(frame[r])]_vars
    /\ [][\A r \in SingleCaller :
            /\ frame[r].pc = "exec_loop"
            /\ Skips(r) # {}
            /\ ~is_complete(plan[r].actions)
            /\ frame[r].iteration < max_iterations
            /\ get_next_actions(plan[r].actions) # <<>>
            => /\ frame'[r].pc = "exec_for"
               /\ frame'[r].next_actions = get_next_actions(plan[r].actions)]_vars
    /\ [](\A r \in SingleCaller :
            \A i \in Skips(r) :
                LET a == obs[r].log[i].action
                IN  /\ ~plan[r].actions[a].required
                    /\ plan[r].actions[a].status = "skipped"
                    /\ a \notin FailedRequired(r))

\* An optional action was skipped, the next member of its frontier was
\* dispatched after it in the same round, and an action was dispatched in
\* the round after.
C14_Witness ==
    \E r \in SingleCaller :
        \E i \in Skips(r) :
            /\ \E j \in EventsOf(r, "dispatch") :
                  /\ j > i
                  /\ obs[r].log[j].round = obs[r].log[i].round
                  /\ obs[r].log[j].action \in Range(FrontierOf(r, i))
            /\ \E j \in EventsOf(r, "dispatch") :
                  obs[r].log[j].round > obs[r].log[i].round

\* The dispatch events of the action at position a of request r's plan.
DispatchesOf(r, a) == {i \in EventsOf(r, "dispatch") : obs[r].log[i].action = a}

\* C15: every action of a plan is dispatched at most once during one run,
\* an action that has left pending keeps the status it got (it never returns
\* to pending and is never dispatched again), and the retry flags of an
\* action change none of this: a failed action with retry_on_failure = True
\* and max_retries > 0 stays failed after its one dispatch.
C15_NoImplicitRetry ==
    /\ [](\A r \in SingleCaller :
            \A a \in DOMAIN plan[r].actions :
                /\ Cardinality(DispatchesOf(r, a)) <= 1
                /\ plan[r].actions[a].status # "pending" =>
                      Cardinality(DispatchesOf(r, a)) = 1
                /\ plan[r].actions[a].status \in
                      {"pending", "completed", "failed", "skipped"})
    /\ [][\A r \in SingleCaller :
            \A a \in DOMAIN plan[r].actions :
                plan[r].actions[a].status # "pending" =>
                    /\ plan'[r].actions[a].status = plan[r].actions[a].status
                    /\ DispatchesOf(r, a)' = DispatchesOf(r, a)]_vars

\* _execute_plan has returned with a failed action that asked for retries
\* and was dispatched once, after a later round ran.
C15_Witness ==
    \E r \in SingleCaller :
        /\ ExecReturned(r)
        /\ \E a \in DOMAIN plan[r].actions :
              /\ plan[r].actions[a].status = "failed"
              /\ plan[r].actions[a].retry_on_failure
              /\ plan[r].actions[a].max_retries > 0
              /\ Cardinality(DispatchesOf(r, a)) = 1
              /\ \E j \in EventsOf(r, "dispatch") :
                    obs[r].log[j].round > 0

\* ------------------------------------------------------------------------
\* Specification SpecConcurrent: process_request calls on one router,
\* interleaved at their await points
\* ------------------------------------------------------------------------

\* What the callers send and the collaborators answer in the interleaved
\* runs: a request that is planned and executed and one that is not, each
\* collaborator succeeding or failing.
ConcurrentMessages == {"Where is my order #12345?", "help"}

ConcurrentMetadatas == { [order_id |-> Text("12345")] }

ConcurrentIntentReplies ==
    { AgentResult(TRUE, ClassifierData("order_status", Nothing), 95, NoText,
                  [tokens_used |-> 12, cost |-> 3]),
      AgentResult(FALSE, EmptyDict, 0, Text("intent classification failed"), EmptyDict) }

ConcurrentActionReplies ==
    { AgentResult(TRUE, [response_message |-> Text("Your order has shipped.")],
                  90, NoText, EmptyDict),
      AgentResult(FALSE, EmptyDict, 0, Text("agent could not answer"), EmptyDict),
      NoCall }

ConcurrentEscalationReplies ==
    { AgentResult(TRUE, [should_escalate |-> TRUE,
                         reason |-> Text("User explicitly requested human agent"),
                         urgency |-> "high"], 90, NoText, EmptyDict),
      AgentResult(TRUE, [should_escalate |-> FALSE], 90, NoText, EmptyDict) }

\* Each call runs the steps of process_request; the event loop may run any
\* call that is not waiting for a collaborator, and any collaborator may
\* answer next.
NextConcurrent ==
    \E r \in RequestIds :
        \/ StartWith(r, ConcurrentMessages, {<<>>}, ConcurrentMetadatas)
        \/ CallClassifier(r)
        \/ ClassifierReturnsFrom(r, ConcurrentIntentReplies)
        \/ CheckAmbiguity(r)
        \/ CreatePlan(r)
        \/ ExecutePlanEntry(r)
        \/ ExecLoop(r)
        \/ DispatchAction(r)
        \/ ActionReturnsFrom(r, ConcurrentActionReplies)
        \/ EndRound(r)
        \/ CallEscalation(r)
        \/ EscalationReturnsFrom(r, ConcurrentEscalationReplies)
        \/ Respond(r)

SpecConcurrent == Init /\ [][NextConcurrent]_vars

\* Everything the model keeps for one request.
RequestState(r) == <<ctx[r], plan[r], frame[r], obs[r]>>

\* The status request r's own dispatches and collaborator outcomes give the
\* action at position a of its plan.
OwnStatus(r, a) ==
    LET own == {i \in EventsOf(r, "resolve") : obs[r].log[i].action = a}
    IN  IF own = {} THEN "pending"
        ELSE obs[r].log[CHOOSE i \in own : TRUE].info

\* The errors request r's own collaborator outcomes put on its context: a
\* failed classification, each failed required action, a raising stage.
OwnErrorCount(r) ==
    Cardinality({i \in DOMAIN obs[r].log :
        \/ obs[r].log[i].ev = "classifier_reply" /\ obs[r].log[i].info = "failure"
        \/ obs[r].log[i].ev = "resolve" /\ obs[r].log[i].info = "failed"
        \/ obs[r].log[i].ev = "raise"})

\* The agents request r's own calls executed, in order.
OwnAgentCount(r) ==
    Cardinality({i \in DOMAIN obs[r].log :
        \/ obs[r].log[i].ev = "classifier_reply" /\ obs[r].log[i].info = "success"
        \/ obs[r].log[i].ev = "resolve"})

\* C16: with process_request calls interleaved at their await points, every
\* step touches the context, plan and locals of one call only; each call's
\* context carries its own ids and inputs; its intent and confidence are the
\* ones its own classification gave; its plan is the one built for its own
\* intent, with the statuses its own action outcomes gave; its errors and
\* agent executions are the ones its own collaborator outcomes caused; and
\* its result reports its own context's ids, intent, confidence and metrics.
C16_RequestsIsolated ==
    /\ [][\E r \in RequestIds :
            \A q \in RequestIds \ {r} : RequestState(q)' = RequestState(q)]_vars
    /\ [](\A r \in RequestIds :
            /\ ctx[r].request_id = <<"req", r>>
            /\ ctx[r].trace_id = <<"trace", r>>
            /\ ClassifierFailed(r) => ctx[r].current_intent = None
            /\ "intent" \in DOMAIN frame[r].intent_result =>
                  ctx[r].current_intent = frame[r].intent_result["intent"]
            /\ plan[r] # NoPlan =>
                  /\ plan[r].plan_id =
                        build_for_intent(IntentOr(ctx[r], "unknown")).plan_id
                  /\ Len(plan[r].actions) =
                        Len(build_for_intent(IntentOr(ctx[r], "unknown")).actions)
            /\ \A a \in DOMAIN plan[r].actions :
                  plan[r].actions[a].status = OwnStatus(r, a)
            /\ Len(ctx[r].errors) = OwnErrorCount(r)
            /\ Len(ctx[r].executed_agents) = OwnAgentCount(r)
            /\ Returned(r) =>
                  /\ frame[r].result.metadata.request_id = <<"req", r>>
                  /\ frame[r].result.metadata.metrics = get_metrics(ctx[r])
                  /\ frame[r].outcome = "SUCCESS" =>
                        /\ frame[r].result.intent = ctx[r].current_intent
                        /\ frame[r].result.confidence = ctx[r].confidence_scores
                        /\ frame[r].result.metadata.trace_id = <<"trace", r>>
                        /\ frame[r].result.metadata.execution_plan =
                              Some(plan_to_dict(plan[r])))

\* Two calls are in flight at once, one awaiting an agent for its order
\* plan, the other awaiting the escalation agent after its default plan.
C16_Witness ==
    \E r, q \in RequestIds :
        /\ r # q
        /\ frame[r].pc = "exec_await"
        /\ plan[r].plan_id = "plan_order_status"
        /\ frame[q].pc = "escalation_await"
        /\ plan[q].plan_id = "plan_default"

\* ------------------------------------------------------------------------
\* C17: the text of the success response
\* ------------------------------------------------------------------------

GenericAcknowledgement == Text("I've processed your request.")

\* The well-known field names a result dict has, in their fixed order.
KeysIn(data) ==
    LET has == [k \in DOMAIN response_keys |-> response_keys[k] \in DOMAIN data]
        at  == IndicesWhere(has, 1, Len(response_keys))
    IN  [k \in DOMAIN at |-> response_keys[at[k]]]

\* First match, scanning the field names in order and, for each, the results
\* in insertion order.
FirstMatchByKey(execution_result) ==
    LET hits == {k \in DOMAIN response_keys :
                    FirstWith(execution_result, response_keys[k]) # 0}
    IN  IF hits = {} THEN GenericAcknowledgement
        ELSE LET k == CHOOSE k \in hits : \A j \in hits : k <= j
             IN  execution_result[FirstWith(execution_result, response_keys[k])][2]
                                 [response_keys[k]]

\* First match, scanning the results in insertion order and, in each, the
\* field names in order.
FirstMatchByResult(execution_result) ==
    LET hits == {i \in DOMAIN execution_result : KeysIn(execution_result[i][2]) # <<>>}
    IN  IF hits = {} THEN GenericAcknowledgement
        ELSE LET i == CHOOSE i \in hits : \A j \in hits : i <= j
             IN  execution_result[i][2][KeysIn(execution_result[i][2])[1]]

\* C17 (as claimed): the message of a SUCCESS result is the first match of
\* the scan of the action results for response_message, answer and
\* user_response (whichever of the two scan orders is meant), no later match
\* replacing it, and the generic acknowledgement when nothing matches.
C17_FirstMatchWins ==
    \A r \in SingleCaller :
        frame[r].outcome = "SUCCESS" =>
            frame[r].result.message \in
                { FirstMatchByKey(frame[r].results),
                  FirstMatchByResult(frame[r].results) }

\* ------------------------------------------------------------------------
\* policies.py: PolicyDecision, EscalationPolicy
\* ------------------------------------------------------------------------

DigitChars == <<"0", "1", "2", "3", "4", "5", "6", "7", "8", "9">>

\* str(n) for a natural number, as an f-string formats it.
RECURSIVE str(_)
str(n) ==
    IF n < 10 THEN DigitChars[n + 1]
    ELSE str(n \div 10) \o DigitChars[(n % 10) + 1]

\* f"{confidence:.2f}" for a confidence given in hundredths.
format_2f(hundredths) ==
    str(hundredths \div 100) \o "." \o DigitChars[((hundredths % 100) \div 10) + 1]
        \o DigitChars[(hundredths % 10) + 1]

\* PolicyDecision(action, reason, metadata); metadata defaults to {}.
PolicyDecision(action, reason, metadata) ==
    [action |-> action, reason |-> reason, metadata |-> metadata]

\* EscalationPolicy(confidence_threshold, error_count_threshold, max_retries);
\* the confidence threshold in hundredths.
EscalationPolicy(confidence_threshold, error_count_threshold, max_retries) ==
    [confidence_threshold  |-> confidence_threshold,
     error_count_threshold |-> error_count_threshold,
     max_retries           |-> max_retries]

\* EscalationPolicy() with its default arguments 0.5, 3, 2.
DefaultEscalationPolicy == EscalationPolicy(50, 3, 2)

\* EscalationPolicy.should_escalate(confidence, error_count, retry_count,
\*     explicit_request, frustration_detected, sensitive_topic)
should_escalate_frustration_first(self, confidence, error_count, retry_count, explicit_request, frustration_detected, sensitive_topic) ==
    IF frustration_detected
    THEN PolicyDecision("escalate", "Customer frustration detected",
                        [priority |-> "high", urgency |-> "immediate"])
    ELSE IF explicit_request
    THEN PolicyDecision("escalate", "User explicitly requested human agent",
                        [priority |-> "high"])
    ELSE PolicyDecision("proceed", "No escalation criteria met", EmptyDict)

should_escalate(self, confidence, error_count, retry_count, explicit_request, frustration_detected, sensitive_topic) ==
    IF explicit_request
    THEN PolicyDecision("escalate", "User explicitly requested human agent",
                        [priority |-> "high"])
    ELSE IF frustration_detected
    THEN PolicyDecision("escalate", "Customer frustration detected",
                        [priority |-> "high", urgency |-> "immediate"])
    ELSE IF sensitive_topic
    THEN PolicyDecision("escalate", "Sensitive topic requires human judgment",
                        [priority |-> "medium"])
    ELSE IF error_count >= self.error_count_threshold
    THEN PolicyDecision("escalate", "Too many errors (" \o str(error_count) \o ")",
                        [priority |-> "medium"])
    ELSE IF retry_count >= self.max_retries
    THEN PolicyDecision("escalate", "Max retries exceeded (" \o str(retry_count) \o ")",
                        [priority |-> "medium"])
    ELSE IF confidence # Nothing /\ confidence[1] < self.confidence_threshold
    THEN PolicyDecision("escalate", "Low confidence (" \o format_2f(confidence[1]) \o ")",
                        [priority |-> "low"])
    ELSE PolicyDecision("proceed", "No escalation criteria met", EmptyDict)

\* ------------------------------------------------------------------------
\* policies.py: RetryPolicy
\* ------------------------------------------------------------------------

\* RetryPolicy(max_retries, retry_delay_ms, backoff_multiplier)
RetryPolicy(max_retries, retry_delay_ms, backoff_multiplier) ==
    [max_retries        |-> max_retries,
     retry_delay_ms     |-> retry_delay_ms,
     backoff_multiplier |-> backoff_multiplier]

\* RetryPolicy() with its default arguments 2, 1000, 2.0.
DefaultRetryPolicy == RetryPolicy(2, 1000, 2)

no_retry_errors == {"validation_error", "authentication_error", "not_found"}

\* base ** exponent
RECURSIVE Power(_, _)
Power(base, exponent) ==
    IF exponent = 0 THEN 1 ELSE base * Power(base, exponent - 1)

\* RetryPolicy.should_retry(error_type, retry_count)
should_retry_one_more(self, error_type, retry_count) ==
    IF error_type \in no_retry_errors
    THEN PolicyDecision("fallback",
             "Error type " \o error_type \o " is not retryable", EmptyDict)
    ELSE IF retry_count > self.max_retries
    THEN PolicyDecision("fallback",
             "Max retries (" \o str(self.max_retries) \o ") exceeded", EmptyDict)
    ELSE PolicyDecision("retry",
             "Retryable error, attempt " \o str(retry_count + 1),
             [delay_ms |-> self.retry_delay_ms
                              * Power(self.backoff_multiplier, retry_count)])

should_retry(self, error_type, retry_count) ==
    IF error_type \in no_retry_errors
    THEN PolicyDecision("fallback",
             "Error type " \o error_type \o " is not retryable", EmptyDict)
    ELSE IF retry_count >= self.max_retries
    THEN PolicyDecision("fallback",
             "Max retries (" \o str(self.max_retries) \o ") exceeded", EmptyDict)
    ELSE PolicyDecision("retry",
             "Retryable error, attempt " \o str(retry_count + 1),
             [delay_ms |-> self.retry_delay_ms
                              * Power(self.backoff_multiplier, retry_count)])

\* RetryPolicy.get_retry_delay(retry_count)
get_retry_delay(self, retry_count) ==
    self.retry_delay_ms * Power(self.backoff_multiplier, retry_count)

\* ------------------------------------------------------------------------
\* policies.py: PolicyManager.get_final_action
\* ------------------------------------------------------------------------

priority == <<"escalate", "fallback", "clarify", "retry", "proceed">>

\* The first decision, in the dict's insertion order, with the action (0
\* when none has it).
FirstDecisionWith(decisions, action) ==
    IF \E i \in DOMAIN decisions : decisions[i].action = action
    THEN CHOOSE i \in DOMAIN decisions :
            /\ decisions[i].action = action
            /\ \A j \in 1..(i - 1) : decisions[j].action # action
    ELSE 0

\* The loops of get_final_action: for each action of the priority list in
\* turn, the first decision with it is returned.
RECURSIVE final_action_from(_, _)
final_action_from(decisions, actions) ==
    IF actions = <<>>
    THEN PolicyDecision("proceed", "No specific policy matched", EmptyDict)
    ELSE LET i == FirstDecisionWith(decisions, Head(actions))
         IN  IF i # 0 THEN decisions[i]
             ELSE final_action_from(decisions, Tail(actions))

\* PolicyManager.get_final_action(decisions)
get_final_action_insertion_order(decisions) ==
    IF \E i \in DOMAIN decisions : decisions[i].action \in Range(priority)
    THEN decisions[CHOOSE i \in DOMAIN decisions :
            /\ decisions[i].action \in Range(priority)
            /\ \A j \in 1..(i - 1) : decisions[j].action \notin Range(priority)]
    ELSE PolicyDecision("proceed", "No specific policy matched", EmptyDict)

get_final_action(decisions) == final_action_from(decisions, priority)

\* ------------------------------------------------------------------------
\* Specification SpecPolicy: the policy methods called directly
\* ------------------------------------------------------------------------

\* Largest error_count and retry_count passed to a policy.
MaxErrorCount == 4

MaxRetryCount == 3

\* Confidences passed to should_escalate, in hundredths: none, and values
\* below, at and above the default threshold.
PolicyConfidences == {Nothing, Some(0), Some(49), Some(50), Some(51), Some(100)}

CallShouldEscalate ==
    \E confidence \in PolicyConfidences, error_count \in 0..MaxErrorCount,
       retry_count \in 0..MaxRetryCount,
       explicit_request \in BOOLEAN, frustration_detected \in BOOLEAN,
       sensitive_topic \in BOOLEAN :
        /\ call = NoDirectCall
        /\ call' = [fn     |-> "should_escalate",
                    args   |-> [confidence           |-> confidence,
                                error_count          |-> error_count,
                                retry_count          |-> retry_count,
                                explicit_request     |-> explicit_request,
                                frustration_detected |-> frustration_detected,
                                sensitive_topic      |-> sensitive_topic],
                    result |-> should_escalate(DefaultEscalationPolicy, confidence,
                                   error_count, retry_count, explicit_request,
                                   frustration_detected, sensitive_topic)]
        /\ UNCHANGED <<ctx, plan, frame, obs, aggregator, strategy, limiter, traffic>>

\* Most decisions handed to get_final_action at once.
MaxDecisions == 3

\* The verdicts of the decisions: the five known ones and one that is not.
Verdicts == Range(priority) \cup {"defer"}

\* The values of a decisions dict, in insertion order.
DecisionLists ==
    UNION { { [i \in 1..n |-> PolicyDecision(v[i], "decision " \o str(i), EmptyDict)] :
                v \in [1..n -> Verdicts] } : n \in 0..MaxDecisions }

CallGetFinalAction ==
    \E decisions \in DecisionLists :
        /\ call = NoDirectCall
        /\ call' = [fn     |-> "get_final_action",
                    args   |-> [decisions |-> decisions],
                    result |-> get_final_action(decisions)]
        /\ UNCHANGED <<ctx, plan, frame, obs, aggregator, strategy, limiter, traffic>>

ErrorTypes == no_retry_errors \cup {"timeout", "rate_limit"}

\* The default policy and one with other settings.
RetryPolicies == {DefaultRetryPolicy, RetryPolicy(1, 500, 3)}

CallShouldRetry ==
    \E self \in RetryPolicies, error_type \in ErrorTypes,
       retry_count \in 0..MaxRetryCount :
        /\ call = NoDirectCall
        /\ call' = [fn     |-> "should_retry",
                    self   |-> self,
                    args   |-> [error_type |-> error_type, retry_count |-> retry_count],
                    result |-> should_retry(self, error_type, retry_count),
                    delay  |-> get_retry_delay(self, retry_count)]
        /\ UNCHANGED <<ctx, plan, frame, obs, aggregator, strategy, limiter, traffic>>

\* A caller starts handling an error of some kind with retry_count = 0.
StartRetryLoop ==
    \E self \in RetryPolicies, error_type \in ErrorTypes :
        /\ call = NoDirectCall
        /\ call' = [fn          |-> "retry_loop",
                    self        |-> self,
                    error_type  |-> error_type,
                    retry_count |-> 0,
                    delays      |-> <<>>,
                    done        |-> FALSE]
        /\ UNCHANGED <<ctx, plan, frame, obs, aggregator, strategy, limiter, traffic>>

\* The caller asks should_retry; on approval it notes the delay, retries and
\* increments retry_count, on denial it gives up.
RetryLoopStep ==
    /\ call.fn = "retry_loop"
    /\ ~call.done
    /\ LET decision == should_retry(call.self, call.error_type, call.retry_count)
       IN  IF decision.action = "retry"
           THEN call' = [call EXCEPT !.retry_count = @ + 1,
                                     !.delays = Append(@, decision.metadata.delay_ms)]
           ELSE call' = [call EXCEPT !.done = TRUE]
    /\ UNCHANGED <<ctx, plan, frame, obs, aggregator, strategy, limiter, traffic>>

\* policies.py ConfidencePolicy.__init__(high_confidence, medium_confidence,
\* low_confidence)
ConfidencePolicy(high_confidence, medium_confidence, low_confidence) ==
    [high_confidence   |-> high_confidence,
     medium_confidence |-> medium_confidence,
     low_confidence    |-> low_confidence]

\* ConfidencePolicy() with the defaults 0.8, 0.6, 0.4
DefaultConfidencePolicy == ConfidencePolicy(80, 60, 40)

\* The medium band answering fallback instead of proceed.
get_action_for_confidence_dip(self, confidence, component) ==
    IF confidence >= self.high_confidence
    THEN PolicyDecision("proceed", "High confidence (" \o format_2f(confidence) \o ")",
                        [confidence_level |-> "high"])
    ELSE IF confidence >= self.medium_confidence
    THEN PolicyDecision("fallback", "Medium confidence (" \o format_2f(confidence) \o ")",
                        [confidence_level |-> "medium", add_disclaimer |-> TRUE])
    ELSE IF confidence >= self.low_confidence
    THEN PolicyDecision("clarify",
                        "Low confidence (" \o format_2f(confidence)
                            \o "), needs clarification",
                        [confidence_level |-> "low"])
    ELSE PolicyDecision("fallback", "Very low confidence (" \o format_2f(confidence) \o ")",
                        [confidence_level |-> "very_low"])

\* ConfidencePolicy.get_action_for_confidence(confidence, component)
get_action_for_confidence(self, confidence, component) ==
    IF confidence >= self.high_confidence
    THEN PolicyDecision("proceed", "High confidence (" \o format_2f(confidence) \o ")",
                        [confidence_level |-> "high"])
    ELSE IF confidence >= self.medium_confidence
    THEN PolicyDecision("proceed", "Medium confidence (" \o format_2f(confidence) \o ")",
                        [confidence_level |-> "medium", add_disclaimer |-> TRUE])
    ELSE IF confidence >= self.low_confidence
    THEN PolicyDecision("clarify",
                        "Low confidence (" \o format_2f(confidence)
                            \o "), needs clarification",
                        [confidence_level |-> "low"])
    ELSE PolicyDecision("fallback", "Very low confidence (" \o format_2f(confidence) \o ")",
                        [confidence_level |-> "very_low"])

\* The default policy and two whose thresholds are not in descending order.
ConfidencePolicies ==
    {DefaultConfidencePolicy, ConfidencePolicy(50, 70, 60), ConfidencePolicy(60, 40, 80)}

\* Confidences at, just below and just above the thresholds, and the ends.
BandConfidences == {0, 39, 40, 41, 59, 60, 61, 79, 80, 81, 100}

\* A caller asks for the verdicts of two confidences, lower <= higher.
CallGetActionForConfidence ==
    \E self \in ConfidencePolicies, c1 \in BandConfidences,
       c2 \in BandConfidences, component \in {"intent", "knowledge"} :
        /\ call = NoDirectCall
        /\ c1 <= c2
        /\ call' = [fn     |-> "get_action_for_confidence",
                    self   |-> self,
                    args   |-> [lower |-> c1, higher |-> c2,
                                component |-> component],
                    result |-> [lower  |-> get_action_for_confidence(self, c1, component),
                                higher |-> get_action_for_confidence(self, c2, component)]]
        /\ UNCHANGED <<ctx, plan, frame, obs, aggregator, strategy, limiter, traffic>>

\* ------------------------------------------------------------------------
\* policies.py: PolicyManager
\* ------------------------------------------------------------------------

\* PolicyManager(): every policy left to its default.
PolicyManager ==
    [escalation |-> DefaultEscalationPolicy,
     fallback   |-> fallback_responses,
     retry      |-> DefaultRetryPolicy,
     confidence |-> DefaultConfidencePolicy]

\* decisions.values(), in insertion order
DictValues(d) == [i \in DOMAIN d |-> d[i][2]]

\* The escalation entry left out.
evaluate_request_confidence_only(self, context) ==
    IF "confidence" \in DOMAIN context
    THEN << <<"confidence",
              get_action_for_confidence(self.confidence, context["confidence"],
                  DictGet(context, "component", "unknown"))>> >>
    ELSE <<>>

\* PolicyManager.evaluate_request(context): the decisions dict, in insertion
\* order.
evaluate_request(self, context) ==
    LET escalation ==
            should_escalate(self.escalation,
                IF "confidence" \in DOMAIN context
                THEN Some(context["confidence"]) ELSE Nothing,
                DictGet(context, "error_count", 0),
                0,
                DictGet(context, "explicit_escalation_request", FALSE),
                DictGet(context, "frustration_detected", FALSE),
                FALSE)
        decisions == OrderedSet(<<>>, "escalation", escalation)
    IN  IF "confidence" \in DOMAIN context
        THEN OrderedSet(decisions, "confidence",
                 get_action_for_confidence(self.confidence, context["confidence"],
                     DictGet(context, "component", "unknown")))
        ELSE decisions

\* The request contexts handed to evaluate_request: each key present or not.
ContextConfidences == {Nothing} \cup {Some(c) : c \in BandConfidences \cup {49, 50, 51}}

ContextDict(confidence, error_count, explicit_request, frustration_detected) ==
    LET given == [confidence                  |-> confidence,
                  error_count                 |-> error_count,
                  explicit_escalation_request |-> explicit_request,
                  frustration_detected        |-> frustration_detected]
    IN  [k \in {key \in DOMAIN given : given[key] # Nothing} |-> given[k][1]]

CallEvaluateRequest ==
    \E confidence \in ContextConfidences,
       error_count \in {Nothing} \cup {Some(n) : n \in 0..MaxErrorCount},
       explicit_request \in {Nothing, Some(FALSE), Some(TRUE)},
       frustration_detected \in {Nothing, Some(FALSE), Some(TRUE)} :
        LET context   == ContextDict(confidence, error_count, explicit_request,
                                     frustration_detected)
            decisions == evaluate_request(PolicyManager, context)
        IN  /\ call = NoDirectCall
            /\ call' = [fn     |-> "evaluate_request",
                        self   |-> PolicyManager,
                        args   |-> [context |-> context],
                        result |-> decisions,
                        final  |-> get_final_action(DictValues(decisions))]
            /\ UNCHANGED <<ctx, plan, frame, obs, aggregator, strategy, limiter, traffic>>

NextPolicy ==
    \/ CallGetActionForConfidence
    \/ CallEvaluateRequest
    \/ CallShouldEscalate
    \/ CallGetFinalAction
    \/ CallShouldRetry
    \/ StartRetryLoop
    \/ RetryLoopStep

SpecPolicy == Init /\ [][NextPolicy]_vars

\* ------------------------------------------------------------------------
\* C18 - C20: the policies
\* ------------------------------------------------------------------------

Escalates(decision, reason, urgency) ==
    /\ decision.action = "escalate"
    /\ decision.reason = reason
    /\ decision.metadata.priority = urgency

\* C18: should_escalate (default thresholds) answers with the decision of
\* the first condition that holds, in the order explicit request,
\* frustration, sensitive topic, error_count >= 3, retry_count >= 2,
\* confidence < 0.5 (strictly; a missing confidence never matches), and with
\* proceed when none holds.
C18_EscalationPriority ==
    call.fn = "should_escalate" =>
        LET a == call.args
            d == call.result
            errors  == a.error_count >= 3
            retries == a.retry_count >= 2
            low     == a.confidence \in {Some(0), Some(49)}
        IN  /\ a.explicit_request =>
                  Escalates(d, "User explicitly requested human agent", "high")
            /\ ~a.explicit_request /\ a.frustration_detected =>
                  Escalates(d, "Customer frustration detected", "high")
            /\ ~a.explicit_request /\ ~a.frustration_detected /\ a.sensitive_topic =>
                  Escalates(d, "Sensitive topic requires human judgment", "medium")
            /\ ~a.explicit_request /\ ~a.frustration_detected /\ ~a.sensitive_topic =>
                  /\ errors =>
                        /\ Escalates(d, d.reason, "medium")
                        /\ d.reason \in {"Too many errors (3)", "Too many errors (4)",
                                         "Too many errors (5)"}
                  /\ ~errors /\ retries =>
                        /\ Escalates(d, d.reason, "medium")
                        /\ d.reason \in {"Max retries exceeded (2)",
                                         "Max retries exceeded (3)",
                                         "Max retries exceeded (4)"}
                  /\ ~errors /\ ~retries /\ low =>
                        /\ Escalates(d, d.reason, "low")
                        /\ d.reason \in {"Low confidence (0.00)", "Low confidence (0.49)"}
                  /\ ~errors /\ ~retries /\ ~low =>
                        /\ d.action = "proceed"
                        /\ d.reason = "No escalation criteria met"
                        /\ d.metadata = EmptyDict

\* should_escalate was called with every flag true, errors and retries over
\* their thresholds and a low confidence, and gave the explicit-request
\* reason.
C18_Witness ==
    /\ call.fn = "should_escalate"
    /\ call.args.explicit_request
    /\ call.args.frustration_detected
    /\ call.args.sensitive_topic
    /\ call.args.error_count >= 3
    /\ call.args.retry_count >= 2
    /\ call.args.confidence = Some(0)
    /\ call.result.reason = "User explicitly requested human agent"

\* The rank of a verdict under escalate > fallback > clarify > retry >
\* proceed (1 is highest; 6 for a verdict that is none of them).
VerdictRank(v) ==
    CASE v = "escalate" -> 1
      [] v = "fallback" -> 2
      [] v = "clarify"  -> 3
      [] v = "retry"    -> 4
      [] v = "proceed"  -> 5
      [] OTHER          -> 6

\* C19: get_final_action returns, for any decisions, one of them whose
\* verdict no other known verdict present outranks (the first such decision
\* in insertion order), and the default proceed decision when the set is
\* empty or holds no known verdict.
C19_FinalActionPriority ==
    call.fn = "get_final_action" =>
        LET ds    == call.args.decisions
            d     == call.result
            known == {i \in DOMAIN ds : VerdictRank(ds[i].action) <= 5}
        IN  /\ known = {} =>
                  /\ d.action = "proceed"
                  /\ d.reason = "No specific policy matched"
            /\ known # {} =>
                  /\ \E i \in known :
                        /\ d = ds[i]
                        /\ \A j \in known : ds[j].action = d.action => i <= j
                  /\ \A j \in known : VerdictRank(d.action) <= VerdictRank(ds[j].action)

\* get_final_action was handed a proceed, an unknown and an escalate
\* decision, in that order, and returned the escalate one.
C19_Witness ==
    /\ call.fn = "get_final_action"
    /\ Len(call.args.decisions) = 3
    /\ call.args.decisions[1].action = "proceed"
    /\ call.args.decisions[2].action = "defer"
    /\ call.args.decisions[3].action = "escalate"
    /\ call.result = call.args.decisions[3]

\* The delays a policy's approvals carry, retry after retry.
ExpectedDelays(self) ==
    IF self = DefaultRetryPolicy THEN <<1000, 2000>> ELSE <<500>>

\* C20: should_retry denies (fallback) validation_error,
\* authentication_error and not_found at any retry_count and every error
\* kind once retry_count >= max_retries; otherwise it approves (retry) with
\* delay_ms = retry_delay_ms * backoff_multiplier ^ retry_count, which is
\* also what get_retry_delay gives. A caller that increments retry_count
\* after each approval is approved at most max_retries times (with the
\* defaults twice, with delays 1000 and 2000) and is then denied.
C20_RetryDecision ==
    /\ call.fn = "should_retry" =>
          LET a    == call.args
              d    == call.result
              self == call.self
          IN  IF a.error_type \in {"validation_error", "authentication_error", "not_found"}
                 \/ a.retry_count >= self.max_retries
              THEN /\ d.action = "fallback"
                   /\ d.metadata = EmptyDict
              ELSE /\ d.action = "retry"
                   /\ d.metadata.delay_ms = ExpectedDelays(self)[a.retry_count + 1]
                   /\ d.metadata.delay_ms = call.delay
    /\ call.fn = "retry_loop" =>
          LET expected == ExpectedDelays(call.self)
          IN  /\ Len(call.delays) <= call.self.max_retries
              /\ call.delays = Prefix(expected, Len(call.delays))
              /\ call.retry_count = Len(call.delays)
              /\ call.done =>
                    IF call.error_type \in {"validation_error", "authentication_error",
                                            "not_found"}
                    THEN call.delays = <<>>
                    ELSE call.delays = expected

\* A caller with the default policy was approved twice, with delays 1000 and
\* 2000, and then denied.
C20_Witness ==
    /\ call.fn = "retry_loop"
    /\ call.self = DefaultRetryPolicy
    /\ call.error_type = "timeout"
    /\ call.done
    /\ call.delays = <<1000, 2000>>

\* ------------------------------------------------------------------------
\* C21: ConfidencePolicy.get_action_for_confidence (policies.py)
\* ------------------------------------------------------------------------

\* proceed >= clarify >= fallback
Privilege(verdict) ==
    CASE verdict = "proceed"  -> 3
      [] verdict = "clarify"  -> 2
      [] verdict = "fallback" -> 1
      [] OTHER                -> 0

\* C21: get_action_for_confidence is monotonic in confidence: for
\* lower <= higher the verdict for higher is at least as privileged as the
\* verdict for lower (proceed >= clarify >= fallback), and every verdict is
\* one of the three; with the defaults the verdicts change exactly at 0.4
\* (fallback to clarify) and 0.6 (clarify to proceed) and not at 0.8.
C21_ConfidenceMonotonic ==
    call.fn = "get_action_for_confidence" =>
        /\ Privilege(call.result.lower.action) >= 1
        /\ Privilege(call.result.higher.action) >= Privilege(call.result.lower.action)
        /\ call.self = DefaultConfidencePolicy =>
              call.result.higher.action =
                  IF call.args.higher >= 60 THEN "proceed"
                  ELSE IF call.args.higher >= 40 THEN "clarify"
                  ELSE "fallback"

\* With the defaults, 0.59 got clarify and 0.60 got proceed.
C21_Witness ==
    /\ call.fn = "get_action_for_confidence"
    /\ call.self = DefaultConfidencePolicy
    /\ call.args.lower = 59
    /\ call.args.higher = 60
    /\ call.result.lower.action = "clarify"
    /\ call.result.higher.action = "proceed"
    /\ call.result.higher.metadata.confidence_level = "medium"

\* ------------------------------------------------------------------------
\* confidence.py: ConfidencePolicy (the class of the same name as the one in
\* policies.py) and direct use of a ConfidenceAggregator
\* ------------------------------------------------------------------------

\* confidence.py ConfidencePolicy.__init__(intent_threshold,
\* knowledge_threshold, escalation_threshold)
confidence_ConfidencePolicy(intent_threshold, knowledge_threshold, escalation_threshold) ==
    [intent_threshold     |-> intent_threshold,
     knowledge_threshold  |-> knowledge_threshold,
     escalation_threshold |-> escalation_threshold]

\* confidence.py ConfidencePolicy() with the defaults 0.7, 0.6, 0.5
confidence_DefaultConfidencePolicy == confidence_ConfidencePolicy(70, 60, 50)

\* Every component treated by the generic bands.
get_action_generic_only(self, component, confidence) ==
    IF confidence >= 70 THEN "proceed"
    ELSE IF confidence >= 50 THEN "retry"
    ELSE "escalate"

\* confidence.py ConfidencePolicy.get_action(component, confidence)
get_action(self, component, confidence) ==
    IF component = "intent"
    THEN IF confidence >= self.intent_threshold THEN "proceed"
         ELSE IF confidence >= self.escalation_threshold THEN "clarify"
         ELSE "escalate"
    ELSE IF component = "knowledge"
    THEN IF confidence >= self.knowledge_threshold THEN "proceed"
         ELSE IF confidence >= self.escalation_threshold THEN "retry"
         ELSE "escalate"
    ELSE IF confidence >= 70 THEN "proceed"
         ELSE IF confidence >= 50 THEN "retry"
         ELSE "escalate"

\* The default policy, one with other thresholds, and one whose knowledge
\* threshold lies below its escalation threshold.
confidence_ConfidencePolicies ==
    {confidence_DefaultConfidencePolicy,
     confidence_ConfidencePolicy(80, 40, 30),
     confidence_ConfidencePolicy(90, 40, 60)}

GetActionComponents == {"intent", "knowledge", "response", "orders"}

GetActionConfidences == {0, 29, 30, 39, 40, 49, 50, 59, 60, 69, 70, 79, 80, 89, 90, 100}

CallGetAction ==
    \E self \in confidence_ConfidencePolicies, component \in GetActionComponents,
       confidence \in GetActionConfidences :
        /\ call = NoDirectCall
        /\ call' = [fn     |-> "get_action",
                    self   |-> self,
                    args   |-> [component |-> component, confidence |-> confidence],
                    result |-> get_action(self, component, confidence)]
        /\ UNCHANGED <<ctx, plan, frame, obs, aggregator, strategy, limiter, traffic>>

\* Most add_score calls made on the aggregator.
MaxWrites == 3

AggregatorComponents == {"intent", "knowledge"}

AggregatorScores == {0, 50, 70, 100}

\* The add_score calls made so far, oldest first.
WritesSoFar == IF "writes" \in DOMAIN call THEN call.writes ELSE <<>>

\* A direct call is in progress on nothing but the aggregator.
AggregatorInUse == call = NoDirectCall \/ "writes" \in DOMAIN call

AddScore ==
    \E component \in AggregatorComponents, score \in AggregatorScores :
        /\ AggregatorInUse
        /\ Len(WritesSoFar) < MaxWrites
        /\ aggregator' = add_score(aggregator, component, score, None)
        /\ call' = [fn     |-> "add_score",
                    args   |-> [component |-> component, score |-> score],
                    writes |-> Append(WritesSoFar, <<component, score>>)]
        /\ UNCHANGED <<ctx, plan, frame, obs, strategy, limiter, traffic>>

\* The thresholds a caller supplies: none, 0.0, 0.5, 0.7, 1.0.
SuppliedThresholds == {Nothing, Some(0), Some(50), Some(70), Some(100)}

CallMeetsThreshold ==
    \E threshold \in SuppliedThresholds, require_all \in BOOLEAN :
        /\ AggregatorInUse
        /\ call' = [fn     |-> "meets_threshold",
                    args   |-> [threshold |-> threshold, require_all |-> require_all],
                    result |-> meets_threshold(aggregator, threshold, require_all),
                    writes |-> WritesSoFar]
        /\ UNCHANGED <<ctx, plan, frame, obs, aggregator, strategy, limiter, traffic>>

\* The weights a caller supplies: none, an empty dict, one doubling intent,
\* one that weighs every component with zero.
SuppliedWeights ==
    {Nothing, Some(EmptyDict), Some([intent |-> 2]),
     Some([intent |-> 0, knowledge |-> 0])}

CallGetWeightedAverage ==
    \E weights \in SuppliedWeights :
        /\ AggregatorInUse
        /\ call' = [fn     |-> "get_weighted_average",
                    args   |-> [weights |-> weights],
                    result |-> get_weighted_average(aggregator, weights),
                    writes |-> WritesSoFar]
        /\ UNCHANGED <<ctx, plan, frame, obs, aggregator, strategy, limiter, traffic>>

CallGetReport ==
    /\ AggregatorInUse
    /\ call' = [fn     |-> "get_report",
                result |-> get_report(aggregator),
                writes |-> WritesSoFar]
    /\ UNCHANGED <<ctx, plan, frame, obs, aggregator, strategy, limiter, traffic>>

NextConfidence ==
    \/ CallGetAction
    \/ AddScore
    \/ CallMeetsThreshold
    \/ CallGetWeightedAverage
    \/ CallGetReport

SpecConfidence == Init /\ [][NextConfidence]_vars

\* ------------------------------------------------------------------------
\* C22 - C24: confidence.py
\* ------------------------------------------------------------------------

\* C22: get_action(component, confidence) returns, for "intent": proceed
\* when confidence >= intent_threshold, else clarify when
\* >= escalation_threshold, else escalate; for "knowledge": proceed when
\* >= knowledge_threshold, else retry when >= escalation_threshold, else
\* escalate; for any other component: proceed at >= 0.7, retry at >= 0.5,
\* else escalate.
C22_GetActionBands ==
    call.fn = "get_action" =>
        LET self       == call.self
            confidence == call.args.confidence
            verdict    == call.result
        IN  CASE call.args.component = "intent" ->
                    /\ verdict = "proceed" <=> confidence >= self.intent_threshold
                    /\ verdict = "clarify" <=>
                          /\ confidence < self.intent_threshold
                          /\ confidence >= self.escalation_threshold
                    /\ verdict = "escalate" <=>
                          /\ confidence < self.intent_threshold
                          /\ confidence < self.escalation_threshold
                    /\ verdict \in {"proceed", "clarify", "escalate"}
              [] call.args.component = "knowledge" ->
                    /\ verdict = "proceed" <=> confidence >= self.knowledge_threshold
                    /\ verdict = "retry" <=>
                          /\ confidence < self.knowledge_threshold
                          /\ confidence >= self.escalation_threshold
                    /\ verdict = "escalate" <=>
                          /\ confidence < self.knowledge_threshold
                          /\ confidence < self.escalation_threshold
                    /\ verdict \in {"proceed", "retry", "escalate"}
              [] OTHER ->
                    /\ verdict = "proceed" <=> confidence >= 70
                    /\ verdict = "retry" <=> confidence < 70 /\ confidence >= 50
                    /\ verdict = "escalate" <=> confidence < 50
                    /\ verdict \in {"proceed", "retry", "escalate"}

\* With the defaults, "intent" at 0.69 was answered with clarify.
C22_Witness ==
    /\ call.fn = "get_action"
    /\ call.self = confidence_DefaultConfidencePolicy
    /\ call.args.component = "intent"
    /\ call.args.confidence = 69
    /\ call.result = "clarify"

\* The scores the aggregator holds, in insertion order.
HeldScores == [i \in DOMAIN aggregator.scores |-> aggregator.scores[i][2].score]

\* The threshold a call is claimed to use: the supplied one, 0 included, and
\* the default only when none is supplied.
ClaimedThreshold(threshold) ==
    IF threshold = Nothing THEN aggregator.default_threshold ELSE threshold[1]

\* C23 (as claimed): for an aggregator holding at least one score,
\* meets_threshold(threshold, require_all = true) is true exactly when every
\* score is >= the supplied threshold, and with require_all = false exactly
\* when the equal-weight average is >= the supplied threshold, for every
\* supplied threshold including 0; the default is used only when none is
\* supplied.
C23_MeetsThreshold ==
    (call.fn = "meets_threshold" /\ aggregator.scores # <<>>) =>
        LET t == ClaimedThreshold(call.args.threshold)
        IN  call.result <=>
                IF call.args.require_all
                THEN \A i \in DOMAIN HeldScores : HeldScores[i] >= t
                ELSE SumSeq(HeldScores) >= t * Len(HeldScores)

\* The last score written for a component among the add_score calls so far.
LastWritten(component) ==
    LET at == {i \in DOMAIN WritesSoFar : WritesSoFar[i][1] = component}
    IN  WritesSoFar[CHOOSE i \in at : \A j \in at : j <= i][2]

\* C24: an aggregator with no scores reports weighted_average() = 0.0 with
\* or without weights, meets_threshold() = false for every threshold and
\* both require_all values, and a report with overall 0.0 and level
\* very_low; after any sequence of add_score calls it holds exactly one
\* score per component written, the last one written.
C24_EmptyAndLastWrite ==
    /\ AggregatorInUse =>
          /\ aggregator.scores = <<>> <=> WritesSoFar = <<>>
          /\ \A i, j \in DOMAIN aggregator.scores :
                aggregator.scores[i][1] = aggregator.scores[j][1] => i = j
          /\ {aggregator.scores[i][1] : i \in DOMAIN aggregator.scores}
                = {WritesSoFar[i][1] : i \in DOMAIN WritesSoFar}
          /\ \A i \in DOMAIN aggregator.scores :
                /\ aggregator.scores[i][2].score = LastWritten(aggregator.scores[i][1])
                /\ aggregator.scores[i][2].component = aggregator.scores[i][1]
    /\ aggregator.scores = <<>> =>
          /\ call.fn = "get_weighted_average" => call.result = [num |-> 0, den |-> 1]
          /\ call.fn = "meets_threshold" => call.result = FALSE
          /\ call.fn = "get_report" =>
                /\ call.result.overall = [num |-> 0, den |-> 1]
                /\ call.result.level = "very_low"
                /\ call.result.scores = <<>>

\* intent was written twice and knowledge once in between; the aggregator
\* holds the later intent score, and its report counts two components.
C24_Witness ==
    /\ call.fn = "get_report"
    /\ WritesSoFar = <<<<"intent", 50>>, <<"knowledge", 70>>, <<"intent", 100>>>>
    /\ HeldScores = <<100, 70>>
    /\ call.result.components_count = 2
    /\ call.result.overall = [num |-> 170, den |-> 2]
    /\ call.result.level = "high"

\* ------------------------------------------------------------------------
\* ambiguity.py called directly: the detector, the resolver and a
\* DisambiguationStrategy object
\* ------------------------------------------------------------------------

\* intent_confidence: absent, or a confidence in hundredths.
DetectorConfidences == {Nothing, Some(30), Some(40), Some(41), Some(59), Some(60), Some(90)}

\* possible_intents: absent, empty, or one to four candidates.
DetectorCandidates ==
    { Nothing,
      Some(<<>>),
      Some(<<"order_status">>),
      Some(<<"order_status", "returns_refunds">>),
      Some(<<"order_status", "product_info", "ticket_creation">>),
      Some(<<"order_status", "billing", "product_info", "returns_refunds">>) }

\* The context dict handed to analyze_and_resolve.
DetectorContexts ==
    { EmptyDict,
      [order_id |-> Text("12345")],
      [conversation_history |-> <<"user: hello">>],
      [order_id |-> Text("12345"), product_name |-> Text("kettle"),
       conversation_history |-> <<"user: hello">>] }

CallDetectAmbiguity ==
    \E user_message \in DetectorMessages, intent_confidence \in DetectorConfidences,
       possible_intents \in DetectorCandidates :
        /\ call = NoDirectCall
        /\ call' = [fn     |-> "detect_ambiguity",
                    args   |-> [user_message      |-> user_message,
                                intent_confidence |-> intent_confidence,
                                possible_intents  |-> possible_intents],
                    result |-> detect_ambiguity(user_message, intent_confidence,
                                                possible_intents)]
        /\ UNCHANGED <<ctx, plan, frame, obs, aggregator, strategy, limiter, traffic>>

CallAnalyzeAndResolve ==
    \E user_message \in DetectorMessages, intent_confidence \in DetectorConfidences,
       possible_intents \in DetectorCandidates, context \in DetectorContexts :
        /\ call = NoDirectCall
        /\ call' = [fn     |-> "analyze_and_resolve",
                    args   |-> [user_message      |-> user_message,
                                intent_confidence |-> intent_confidence,
                                possible_intents  |-> possible_intents,
                                context           |-> context],
                    result |-> analyze_and_resolve(user_message, intent_confidence,
                                                   possible_intents, context)]
        /\ UNCHANGED <<ctx, plan, frame, obs, aggregator, strategy, limiter, traffic>>

\* Most calls made on the DisambiguationStrategy object.
MaxStrategyCalls == 4

SessionIds == {"s1", "s2"}

ClarificationDatas == { [question |-> "first"], [question |-> "second"] }

UserResponses == {"the first one"}

\* The calls made on the strategy so far, oldest first.
CallsSoFar == IF "log" \in DOMAIN call THEN call.log ELSE <<>>

StrategyInUse ==
    /\ call = NoDirectCall \/ "log" \in DOMAIN call
    /\ Len(CallsSoFar) < MaxStrategyCalls

RegisterClarification ==
    \E session_id \in SessionIds, clarification_data \in ClarificationDatas :
        /\ StrategyInUse
        /\ strategy' = register_clarification(strategy, session_id, clarification_data)
        /\ call' = [fn  |-> "register_clarification",
                    log |-> Append(CallsSoFar,
                                   [op |-> "register", session_id |-> session_id,
                                    data |-> clarification_data])]
        /\ UNCHANGED <<ctx, plan, frame, obs, aggregator, limiter, traffic>>

ResolveClarification ==
    \E session_id \in SessionIds, user_response \in UserResponses :
        /\ StrategyInUse
        /\ LET done == resolve_clarification(strategy, session_id, user_response)
           IN  /\ strategy' = done.self
               /\ call' = [fn     |-> "resolve_clarification",
                           args   |-> [session_id |-> session_id,
                                       user_response |-> user_response],
                           result |-> done.returned,
                           log    |-> Append(CallsSoFar,
                                             [op |-> "resolve", session_id |-> session_id,
                                              data |-> None])]
        /\ UNCHANGED <<ctx, plan, frame, obs, aggregator, limiter, traffic>>

ClearPending ==
    \E session_id \in SessionIds :
        /\ StrategyInUse
        /\ strategy' = clear_pending(strategy, session_id)
        /\ call' = [fn  |-> "clear_pending",
                    log |-> Append(CallsSoFar,
                                   [op |-> "clear", session_id |-> session_id,
                                    data |-> None])]
        /\ UNCHANGED <<ctx, plan, frame, obs, aggregator, limiter, traffic>>

\* has_pending_clarification and get_pending_clarification called at any
\* point: both only read the registry.
GetPendingClarification ==
    \E session_id \in SessionIds :
        /\ StrategyInUse
        /\ call' = [fn     |-> "get_pending_clarification",
                    args   |-> [session_id |-> session_id],
                    result |-> [has     |-> has_pending_clarification(strategy, session_id),
                                pending |-> get_pending_clarification(strategy, session_id)],
                    log    |-> CallsSoFar]
        /\ UNCHANGED <<ctx, plan, frame, obs, aggregator, strategy, limiter, traffic>>

NextAmbiguity ==
    \/ CallDetectAmbiguity
    \/ GetPendingClarification
    \/ CallAnalyzeAndResolve
    \/ RegisterClarification
    \/ ResolveClarification
    \/ ClearPending

SpecAmbiguity == Init /\ [][NextAmbiguity]_vars

\* ------------------------------------------------------------------------
\* C25 - C27: ambiguity.py
\* ------------------------------------------------------------------------

\* The signals claimed to fire for a call, as <<type, weight>> in the order
\* of the checks.
ClaimedSignals(user_message, intent_confidence, possible_intents) ==
    LET chars == CharsOf[user_message]
        words == word_count(chars)
        low     == intent_confidence # Nothing /\ intent_confidence[1] < 60
        several == possible_intents # Nothing /\ Len(possible_intents[1]) > 1
        short   == words <= 3
        generic == words <= 5
                   /\ \E pattern \in generic_patterns : Contains(lower(chars), pattern)
        asks    == question_count(chars) > 1
    IN  (IF low THEN <<<<"low_intent_confidence", 100 - intent_confidence[1]>>>> ELSE <<>>)
        \o (IF several THEN <<<<"multiple_intents", 70>>>> ELSE <<>>)
        \o (IF short THEN <<<<"too_short", 60>>>> ELSE <<>>)
        \o (IF generic THEN <<<<"generic_request", 70>>>> ELSE <<>>)
        \o (IF asks THEN <<<<"multiple_questions", 50>>>> ELSE <<>>)

\* C25: detect_ambiguity fires exactly these signals: low intent confidence
\* when confidence is given and < 0.6 (weight 1 - confidence), multiple
\* intents when more than one candidate (0.7), too short when word count
\* <= 3 (0.6), generic request when a generic phrase occurs and word count
\* <= 5 (0.7), multiple questions when more than one '?' (0.5); the score is
\* the mean of the fired weights (0 when none fired) and is_ambiguous holds
\* iff score >= 0.6.  ("help", 0.3) fires low confidence, too short and
\* generic request and is ambiguous; the 8-word message with confidence 0.9
\* and no candidates scores 0 and is not ambiguous.
C25_DetectAmbiguity ==
    call.fn = "detect_ambiguity" =>
        LET a        == call.args
            d        == call.result
            claimed  == ClaimedSignals(a.user_message, a.intent_confidence,
                                       a.possible_intents)
            weights  == [i \in DOMAIN claimed |-> claimed[i][2]]
        IN  /\ [i \in DOMAIN d.signals |->
                    <<d.signals[i].signal_type, d.signals[i].confidence>>] = claimed
            /\ IF claimed = <<>>
               THEN d.ambiguity_score.num = 0
               ELSE d.ambiguity_score.num * Len(claimed)
                        = SumSeq(weights) * d.ambiguity_score.den
            /\ d.is_ambiguous <=>
                  (claimed # <<>> /\ SumSeq(weights) >= 60 * Len(claimed))
            /\ (a.user_message = "help" /\ a.intent_confidence = Some(30)
                    /\ a.possible_intents = Nothing) =>
                  /\ [i \in DOMAIN d.signals |-> d.signals[i].signal_type]
                        = <<"low_intent_confidence", "too_short", "generic_request">>
                  /\ d.is_ambiguous
            /\ (a.user_message = "Could you check my recent delivery status please"
                    /\ a.intent_confidence = Some(90) /\ a.possible_intents = Nothing) =>
                  /\ d.signals = <<>>
                  /\ d.ambiguity_score.num = 0
                  /\ ~d.is_ambiguous

\* detect_ambiguity("help", 0.3) fired three signals with mean 2.0/3 and
\* found the message ambiguous.
C25_Witness ==
    /\ call.fn = "detect_ambiguity"
    /\ call.args.user_message = "help"
    /\ call.args.intent_confidence = Some(30)
    /\ call.args.possible_intents = Nothing
    /\ Len(call.result.signals) = 3
    /\ call.result.ambiguity_score = [num |-> 200, den |-> 3]
    /\ call.result.is_ambiguous

CallsFor(session_id, log) ==
    LET at == IndicesWhere([i \in DOMAIN log |-> log[i].session_id = session_id],
                           1, Len(log))
    IN  [k \in DOMAIN at |-> log[at[k]]]

\* What is pending for a session after the calls of a log: the data of the
\* last register if no resolve or clear followed it.
PendingAfter(session_id, log) ==
    LET own == CallsFor(session_id, log)
    IN  IF own # <<>> /\ own[Len(own)].op = "register"
        THEN Some(own[Len(own)].data)
        ELSE Nothing

\* C27: after any sequence of register_clarification, resolve_clarification
\* and clear_pending calls the strategy holds, per session id, exactly the
\* data of the last register not followed by a resolve or clear of that
\* session (a later register replaces the earlier data); resolve returns
\* the data pending before it together with the user response, and nothing
\* when none was pending; after a resolve has_pending_clarification is
\* false.
C27_OnePendingPerSession ==
    /\ \A session_id \in SessionIds :
          LET pending == PendingAfter(session_id, CallsSoFar)
          IN  /\ has_pending_clarification(strategy, session_id) <=> pending # Nothing
              /\ pending # Nothing =>
                    get_pending_clarification(strategy, session_id)
                        = Some([data |-> pending[1], timestamp |-> None])
              /\ pending = Nothing =>
                    get_pending_clarification(strategy, session_id) = Nothing
    /\ DOMAIN strategy.pending_clarifications \subseteq SessionIds
    /\ call.fn = "resolve_clarification" =>
          LET before == PendingAfter(call.args.session_id,
                                     SubSeq(call.log, 1, Len(call.log) - 1))
          IN  /\ ~has_pending_clarification(strategy, call.args.session_id)
              /\ IF before = Nothing
                 THEN call.result = Nothing
                 ELSE /\ call.result # Nothing
                      /\ call.result[1].original_clarification.data = before[1]
                      /\ call.result[1].user_response = call.args.user_response
                      /\ call.result[1].resolved

\* Two registers for s1, then a resolve that returned the second data, then
\* a second resolve that returned nothing.
C27_Witness ==
    /\ call.fn = "resolve_clarification"
    /\ call.args.session_id = "s1"
    /\ call.result = Nothing
    /\ Len(call.log) = 4
    /\ call.log[1] = [op |-> "register", session_id |-> "s1", data |-> [question |-> "first"]]
    /\ call.log[2] = [op |-> "register", session_id |-> "s1", data |-> [question |-> "second"]]
    /\ call.log[3].op = "resolve"
    /\ call.log[3].session_id = "s1"
    /\ strategy.pending_clarifications = EmptyDict

\* ------------------------------------------------------------------------
\* execution_plan.py: the builder called for any intent, its plan executed
\* ------------------------------------------------------------------------

\* The intents handed to the builder: the mapped ones, unmapped ones, one
\* that differs from a mapped one by case only, the empty string and None
\* (both of which the router replaces by "unknown").
BuilderIntents ==
    IntentStrings \cup {"unknown", "ORDER_STATUS", "billing", None}

\* The router is about to build the plan for some current intent.
InitBuilder ==
    /\ \E intent \in BuilderIntents :
          ctx = [r \in RequestIds |->
                   IF r \in SingleCaller
                   THEN [from_request(r, "Tell me about your store hours today",
                                      <<>>, EmptyDict)
                            EXCEPT !.current_intent = intent]
                   ELSE from_request(r, None, <<>>, EmptyDict)]
    /\ plan = [r \in RequestIds |-> NoPlan]
    /\ frame = [r \in RequestIds |->
                  IF r \in SingleCaller
                  THEN [InitialFrame EXCEPT !.pc = "plan"]
                  ELSE InitialFrame]
    /\ obs = [r \in RequestIds |-> InitialObs]
    /\ call = NoDirectCall
    /\ aggregator = DefaultConfidenceAggregator
    /\ strategy = DisambiguationStrategy
    /\ limiter = RateLimitMiddleware(RequestsPerMinute)
    /\ traffic = NoTraffic

NextBuilder ==
    \E r \in SingleCaller :
        \/ CreatePlan(r)
        \/ ExecutePlanEntry(r)
        \/ ExecLoop(r)
        \/ DispatchAction(r)
        \/ ActionReturns(r)
        \/ EndRound(r)

SpecBuilder == InitBuilder /\ [][NextBuilder]_vars

\* ------------------------------------------------------------------------
\* C28: the plans of ExecutionPlanBuilder
\* ------------------------------------------------------------------------

\* The intents of the fixed mapping.
MappedIntents ==
    {"order_status", "product_info", "ticket_creation", "returns_refunds",
     "general_inquiry", "greeting", "escalation"}

\* Action i of the plan can reach action j along dependencies in at most n
\* steps.
RECURSIVE DependsWithin(_, _, _, _)
DependsWithin(actions, i, j, n) ==
    IF n = 0 THEN FALSE
    ELSE \E k \in DOMAIN actions :
            /\ actions[k].action_id \in actions[i].depends_on
            /\ (k = j \/ DependsWithin(actions, k, j, n - 1))

\* C28: every plan returned by build_for_intent, for any intent, has all
\* actions pending, unique action ids, every dependency id naming an action
\* of the same plan that appears earlier in the action list, and so an
\* acyclic dependency graph; an intent outside the fixed mapping yields the
\* plan with the single required fallback-response action.
C28_BuilderPlansWellFormed ==
    \A r \in SingleCaller :
        frame[r].pc = "execute" =>
            LET actions == plan[r].actions
            IN  /\ actions # <<>>
                /\ \A i \in DOMAIN actions : actions[i].status = "pending"
                /\ \A i, j \in DOMAIN actions :
                      actions[i].action_id = actions[j].action_id => i = j
                /\ \A i \in DOMAIN actions : \A d \in actions[i].depends_on :
                      \E j \in 1..(i - 1) : actions[j].action_id = d
                /\ \A i \in DOMAIN actions : ~DependsWithin(actions, i, i, Len(actions))
                /\ ctx[r].current_intent \notin MappedIntents =>
                      /\ Len(actions) = 1
                      /\ actions[1].action_id = "generate_fallback"
                      /\ actions[1].action_type = "response_generation"
                      /\ actions[1].required
                      /\ actions[1].depends_on = {}
                      /\ plan[r].plan_id = "plan_default"

\* The three-action ticket plan was built for ticket_creation, nothing of it
\* dispatched yet.
C28_Witness ==
    \E r \in SingleCaller :
        /\ frame[r].pc = "execute"
        /\ ctx[r].current_intent = "ticket_creation"
        /\ Len(plan[r].actions) = 3
        /\ plan[r].actions[3].depends_on = {"create_ticket"}

\* ------------------------------------------------------------------------
\* C29: pronoun references and the conversation history of the request
\* ------------------------------------------------------------------------

\* The clarification the request was answered with asks what the user is
\* referring to, the question for a missing "conversation_context".
AsksWhatIsReferredTo(r) ==
    /\ ctx[r].requires_clarification
    /\ \E i \in DOMAIN ctx[r].clarification_question :
          ctx[r].clarification_question[i] = context_questions["conversation_context"]

\* C29 (as claimed): in process_request a message with a pronoun reference
\* is flagged as missing "conversation_context", and so answered with the
\* clarification asking for it, only when the request carries no prior
\* conversation history; with a non-empty conversation_history passed to
\* process_request that item is not flagged.
C29_PronounFlaggedOnlyWithoutHistory ==
    \A r \in SingleCaller :
        AsksWhatIsReferredTo(r) => ctx[r].conversation_history = <<>>

\* ------------------------------------------------------------------------
\* process_request from the EXECUTE stage on, for plans that are dependency
\* chains of about max_iterations required actions
\* ------------------------------------------------------------------------

\* A chain of n required agent calls, each depending on the one before.
ChainPlan(n) ==
    ExecutionPlan("plan_chain", "test",
        [i \in 1..n |->
            Action(IdTable[i], "agent_call", "tickets_agent",
                   IF i = 1 THEN {} ELSE {IdTable[i - 1]}, TRUE)])

\* Chains of exactly max_iterations actions, of one more and of two more.
ChainLengths == max_iterations..(max_iterations + 2)

\* process_request has built such a plan and is about to execute it.
InitLongPlan ==
    /\ ctx = [r \in RequestIds |->
                IF r \in SingleCaller
                THEN [from_request(r, "Tell me about your store hours today",
                                   <<>>, EmptyDict)
                         EXCEPT !.execution_plan = "plan"]
                ELSE from_request(r, None, <<>>, EmptyDict)]
    /\ \E n \in ChainLengths :
          plan = [r \in RequestIds |-> IF r \in SingleCaller THEN ChainPlan(n) ELSE NoPlan]
    /\ frame = [r \in RequestIds |->
                  IF r \in SingleCaller
                  THEN [InitialFrame EXCEPT !.pc = "execute"]
                  ELSE InitialFrame]
    /\ obs = [r \in RequestIds |-> InitialObs]
    /\ call = NoDirectCall
    /\ aggregator = DefaultConfidenceAggregator
    /\ strategy = DisambiguationStrategy
    /\ limiter = RateLimitMiddleware(RequestsPerMinute)
    /\ traffic = NoTraffic

NextLongPlan ==
    \E r \in SingleCaller :
        \/ ExecutePlanEntry(r)
        \/ ExecLoop(r)
        \/ DispatchAction(r)
        \/ ActionReturns(r)
        \/ EndRound(r)
        \/ CallEscalation(r)
        \/ EscalationReturns(r)
        \/ Respond(r)

SpecLongPlan == InitLongPlan /\ [][NextLongPlan]_vars

\* ------------------------------------------------------------------------
\* C30: the round cap cuts a long plan off silently
\* ------------------------------------------------------------------------

\* The plan's chain is longer than the round cap.
LongerThanCap(r) == Len(plan[r].actions) > max_iterations

\* Every action dispatched so far succeeded: none failed, none was skipped,
\* no call raised.
AllSucceeded(r) ==
    /\ \A i \in DOMAIN plan[r].actions :
          plan[r].actions[i].status \in {"pending", "completed"}
    /\ EventsOf(r, "raise") = {}

\* The evaluator answered that no escalation is needed.
EvaluatorProceeds(r) ==
    \E i \in EventsOf(r, "evaluator_reply") :
        /\ obs[r].log[i].info # "success_escalate"
        /\ ~ctx[r].escalate_to_human

\* C30: a valid acyclic plan whose dependency chain has more than 10
\* required actions, every action succeeding, is cut off by the round cap:
\* _execute_plan returns after exactly 10 rounds with the first 10 actions
\* completed and the rest pending, is_complete() and has_failed() both false
\* and no error recorded; process_request goes on to the escalation check
\* and, unless the evaluator escalates, returns the success response with
\* success = true, as it does for a chain of 10 that completed.
C30_RoundCapSilent ==
    \A r \in SingleCaller :
        /\ (ExecReturned(r) /\ AllSucceeded(r) /\ LongerThanCap(r)) =>
              /\ frame[r].iteration = max_iterations
              /\ \A i \in DOMAIN plan[r].actions :
                    plan[r].actions[i].status =
                        IF i <= max_iterations THEN "completed" ELSE "pending"
              /\ ~is_complete(plan[r].actions)
              /\ ~has_failed(plan[r].actions)
              /\ ctx[r].errors = <<>>
              /\ frame[r].pc \in {"check_escalation", "escalation_await",
                                  "respond", "returned"}
              /\ Returned(r) =>
                    /\ frame[r].outcome \in {"SUCCESS", "ESCALATED"}
                    /\ obs[r].stages = IF frame[r].outcome = "SUCCESS"
                                       THEN <<"EXECUTE", "ESCALATION_CHECK", "RESPOND">>
                                       ELSE <<"EXECUTE", "ESCALATION_CHECK">>
                    /\ frame[r].outcome = "SUCCESS" <=> EvaluatorProceeds(r)
        /\ (Returned(r) /\ AllSucceeded(r) /\ frame[r].outcome = "SUCCESS") =>
              /\ frame[r].result.success
              /\ frame[r].result.metadata.metrics.error_count = 0
              /\ is_complete(plan[r].actions) <=> ~LongerThanCap(r)

\* An 11-action chain, every action succeeding, returned a success response
\* with its last action still pending.
C30_Witness ==
    \E r \in SingleCaller :
        /\ Returned(r)
        /\ frame[r].outcome = "SUCCESS"
        /\ frame[r].result.success
        /\ Len(plan[r].actions) = max_iterations + 1
        /\ plan[r].actions[max_iterations].status = "completed"
        /\ plan[r].actions[max_iterations + 1].status = "pending"
        /\ frame[r].iteration = max_iterations

\* ------------------------------------------------------------------------
\* C31: progress counts and completion of a plan
\* ------------------------------------------------------------------------

RequiredOf(actions) == {i \in DOMAIN actions : actions[i].required}

\* C31: in every state of a plan under execution the five per-status counts
\* of get_progress sum to total; is_complete() is true exactly when every
\* required action is completed, whatever the status of the optional ones;
\* has_failed() is true exactly when some required action is failed; and
\* the two are never both true.
C31_ProgressAndCompletion ==
    \A r \in SingleCaller :
        LET actions == plan[r].actions
            progress == get_progress(actions)
        IN  /\ progress.pending + progress.in_progress + progress.completed
                 + progress.failed + progress.skipped = progress.total
            /\ is_complete(actions) <=>
                 \A i \in RequiredOf(actions) : actions[i].status = "completed"
            /\ has_failed(actions) <=>
                 \E i \in RequiredOf(actions) : actions[i].status = "failed"
            /\ ~(is_complete(actions) /\ has_failed(actions))

\* A plan whose required action is completed while its optional action was
\* skipped after failing: complete, not failed.
C31_Witness ==
    \E r \in SingleCaller :
        LET actions == plan[r].actions
        IN  /\ \E i \in DOMAIN actions :
                 ~actions[i].required /\ actions[i].status = "skipped"
            /\ RequiredOf(actions) # {}
            /\ is_complete(actions)
            /\ ~has_failed(actions)
            /\ get_progress(actions).skipped = 1
            /\ get_progress(actions).completed = 1

\* ------------------------------------------------------------------------
\* app/api/chat.py: the response the chat endpoint builds from the result
\* of process_request
\* ------------------------------------------------------------------------

\* ChatResponse(success=result["success"], ..., metadata={**metadata,
\* "session_id": session_id}); a text the result lacks is None (NoText).
chat(result, session_id) ==
    [success                |-> result.success,
     message                |-> result.message,
     request_id             |-> result.metadata.request_id,
     intent                 |-> DictGet(result, "intent", None),
     confidence             |-> DictGet(DictGet(result.metadata, "metrics", EmptyDict),
                                        "overall_confidence", None),
     requires_clarification |-> DictGet(result, "requires_clarification", FALSE),
     escalated              |-> DictGet(result, "escalated", FALSE),
     escalation_reason      |-> DictGet(result, "escalation_reason", NoText),
     metadata               |-> [k \in DOMAIN result.metadata \cup {"session_id"} |->
                                    IF k = "session_id" THEN session_id
                                    ELSE result.metadata[k]]]

\* C32: when the escalation evaluator escalates with a reason, the result of
\* process_request carries that reason under escalation_reason, and the chat
\* endpoint's response for the request has escalated = true and the same
\* escalation_reason.
C32_EscalationReasonExposed ==
    \A r \in SingleCaller :
        (EscalateVerdict(r) /\ Returned(r)) =>
            \A i \in EvaluatorReplies(r) :
                LET response == chat(frame[r].result, "session_1")
                IN  /\ response.escalated = TRUE
                    /\ response.escalation_reason = obs[r].log[i].data
                    /\ "escalation_reason" \in DOMAIN frame[r].result
                    /\ frame[r].result.escalation_reason = obs[r].log[i].data

\* ------------------------------------------------------------------------
\* C33: the builder's plans executed with every collaborator succeeding
\* ------------------------------------------------------------------------

\* Every agent and every data source that was called for an action of the
\* plan answered with success.
CollaboratorsSucceeded(r) ==
    \A i \in EventsOf(r, "resolve") :
        plan[r].actions[obs[r].log[i].action].action_type
                \in {"agent_call", "data_fetch"}
            => obs[r].log[i].info = "completed"

\* C33: for every intent of the builder's mapping and for the default plan,
\* when every agent and data source the router calls succeeds, _execute_plan
\* ends with every required action completed: is_complete() is true and
\* has_failed() is false.
C33_BuilderPlansComplete ==
    \A r \in SingleCaller :
        (ExecReturned(r) /\ CollaboratorsSucceeded(r)) =>
            /\ is_complete(plan[r].actions)
            /\ ~has_failed(plan[r].actions)

\* ------------------------------------------------------------------------
\* C34: a required action fails during EXECUTE
\* ------------------------------------------------------------------------

\* The escalation agent raised when _check_escalation called it.
EvaluatorRaised(r) ==
    \E i \in EventsOf(r, "raise") : obs[r].log[i].info = "check_escalation"

EvaluatorCalled(r) ==
    \E i \in DOMAIN obs[r].log : obs[r].log[i].info = "escalation_agent"

LastRound(r) ==
    LET at == CHOOSE i \in EventsOf(r, "exec_return") : TRUE
    IN  obs[r].log[at].round

C36_QuestionIffClarification ==
    /\ call.fn = "analyze_and_resolve" =>
          /\ call.result.clarification_question # NoText
                <=> call.result.requires_clarification
          /\ call.result.requires_clarification =>
                \A r \in SingleCaller :
                    _create_clarification_response(ctx[r], call.result).message
                        # NoText
    /\ \A r \in SingleCaller :
          frame[r].outcome = "CLARIFICATION" =>
              /\ frame[r].result.requires_clarification
              /\ frame[r].result.message # NoText

\* analyze_and_resolve was called on an ambiguous message with an empty
\* candidate list and nothing missing, and returned the generic question.
C36_Witness ==
    /\ call.fn = "analyze_and_resolve"
    /\ call.args.possible_intents = Some(<<>>)
    /\ call.result.missing_context = <<>>
    /\ call.result.requires_clarification
    /\ call.result.clarification_question = generate_generic_clarification

\* ------------------------------------------------------------------------
\* C37: the final action of the default policies
\* ------------------------------------------------------------------------

Keys(d) == {d[i][1] : i \in DOMAIN d}

Entry(d, key) == d[CHOOSE i \in DOMAIN d : d[i][1] = key][2]

\* C37: with the default policies and a context whose confidence, when
\* present, is a number, get_final_action(evaluate_request(context)) is one
\* of escalate, clarify and proceed, never fallback or retry; it is the
\* escalation decision whenever that decision is escalate; the decisions
\* always hold an escalation entry, and hold a confidence entry exactly when
\* the context has a confidence key (and no other entry).
C37_DefaultPoliciesFinalAction ==
    call.fn = "evaluate_request" =>
        LET decisions == call.result
            context   == call.args.context
        IN  /\ call.final.action \in {"escalate", "clarify", "proceed"}
            /\ "escalation" \in Keys(decisions)
            /\ Entry(decisions, "escalation").action = "escalate" =>
                  /\ call.final.action = "escalate"
                  /\ call.final = Entry(decisions, "escalation")
            /\ "confidence" \in Keys(decisions) <=> "confidence" \in DOMAIN context
            /\ Keys(decisions) \subseteq {"escalation", "confidence"}
            /\ Len(decisions) = Cardinality(Keys(decisions))

\* A confidence below every threshold: the confidence policy asks for the
\* fallback, the escalation policy escalates, and the final action is to
\* escalate.
C37_Witness ==
    /\ call.fn = "evaluate_request"
    /\ "confidence" \in DOMAIN call.args.context
    /\ call.args.context["confidence"] = 39
    /\ Entry(call.result, "confidence").action = "fallback"
    /\ Entry(call.result, "escalation").action = "escalate"
    /\ call.final.action = "escalate"

\* ------------------------------------------------------------------------
\* C38: sessions of the DisambiguationStrategy do not interfere
\* ------------------------------------------------------------------------

StrategyOperations ==
    {"register_clarification", "resolve_clarification", "clear_pending",
     "get_pending_clarification"}

\* The session id the last call on the strategy was made for.
TouchedSession ==
    IF "args" \in DOMAIN call THEN call.args.session_id
    ELSE call.log[Len(call.log)].session_id

\* C38: a call of a DisambiguationStrategy operation for one session id
\* leaves what is pending for every other session id as it was; and
\* resolve_clarification or clear_pending for a session with nothing pending
\* returns nothing and leaves the whole registry unchanged.
C38_SessionsIndependent ==
    [][call'.fn \in StrategyOperations =>
          /\ \A other \in SessionIds \ {TouchedSession'} :
                /\ has_pending_clarification(strategy', other)
                      = has_pending_clarification(strategy, other)
                /\ get_pending_clarification(strategy', other)
                      = get_pending_clarification(strategy, other)
          /\ (/\ call'.fn \in {"resolve_clarification", "clear_pending"}
              /\ ~has_pending_clarification(strategy, TouchedSession')) =>
                /\ strategy' = strategy
                /\ call'.fn = "resolve_clarification" => call'.result = Nothing
          /\ call'.fn = "get_pending_clarification" => strategy' = strategy]_vars

\* With a clarification pending for s1, a resolve for s2, which has nothing
\* pending, returned nothing and s1's clarification is still pending.
C38_Witness ==
    /\ call.fn = "resolve_clarification"
    /\ call.args.session_id = "s2"
    /\ call.result = Nothing
    /\ Len(call.log) = 2
    /\ call.log[1].op = "register"
    /\ call.log[1].session_id = "s1"
    /\ has_pending_clarification(strategy, "s1")
    /\ ~has_pending_clarification(strategy, "s2")

\* ------------------------------------------------------------------------
\* app/middleware/rate_limit.py: RateLimitMiddleware.dispatch
\* ------------------------------------------------------------------------

\* client_id = request.client.host, or the x-api-key header when present
client_id_of(request) ==
    IF "x-api-key" \in DOMAIN request.headers
    THEN request.headers["x-api-key"]
    ELSE request.client.host

\* [req_time for req_time in self.requests[client_id] if req_time > minute_ago]
RECURSIVE recent(_, _)
recent(times, minute_ago) ==
    IF times = <<>> THEN <<>>
    ELSE IF Head(times) > minute_ago
    THEN <<Head(times)>> \o recent(Tail(times), minute_ago)
    ELSE recent(Tail(times), minute_ago)

\* The JSONResponse of a rejected request.
TooManyRequests ==
    [status_code |-> 429,
     content     |-> [error |-> "RateLimitError", message |-> "Too many requests",
                      retry_after |-> WindowSeconds],
     headers     |-> [k \in {"Retry-After"} |-> str(WindowSeconds)]]

\* The rejected request recorded as well.
dispatch_records_rejected(self, request, now) ==
    LET client_id  == client_id_of(request)
        minute_ago == now - WindowSeconds
        cleaned    == recent(DictGet(self.requests, client_id, <<>>), minute_ago)
    IN  IF Len(cleaned) >= self.requests_per_minute
        THEN [self     |-> [self EXCEPT !.requests =
                              DictSet(@, client_id, Append(cleaned, now))],
              admitted |-> FALSE,
              response |-> Some(TooManyRequests)]
        ELSE [self     |-> [self EXCEPT !.requests =
                              DictSet(@, client_id, Append(cleaned, now))],
              admitted |-> TRUE,
              response |-> Nothing]

\* RateLimitMiddleware.dispatch(request, call_next) up to its await, at clock
\* reading now: the object afterwards, whether call_next is awaited, and the
\* response returned when it is not.
dispatch(self, request, now) ==
    LET client_id  == client_id_of(request)
        minute_ago == now - WindowSeconds
        cleaned    == recent(DictGet(self.requests, client_id, <<>>), minute_ago)
    IN  IF Len(cleaned) >= self.requests_per_minute
        THEN [self     |-> [self EXCEPT !.requests = DictSet(@, client_id, cleaned)],
              admitted |-> FALSE,
              response |-> Some(TooManyRequests)]
        ELSE [self     |-> [self EXCEPT !.requests =
                              DictSet(@, client_id, Append(cleaned, now))],
              admitted |-> TRUE,
              response |-> Nothing]

\* dispatch after call_next returned: the rate limit headers put on the
\* response, computed from the list as it is by then.
dispatch_headers(self, client_id) ==
    LET remaining == self.requests_per_minute - Len(self.requests[client_id])
    IN  [k \in {"X-RateLimit-Limit", "X-RateLimit-Remaining"} |->
            IF k = "X-RateLimit-Limit" THEN str(self.requests_per_minute)
            ELSE str(IF remaining > 0 THEN remaining ELSE 0)]


\* ------------------------------------------------------------------------
\* Specification SpecRateLimit: requests arriving at the rate limiter
\* ------------------------------------------------------------------------

\* Most requests sent to the middleware.
MaxDispatches == 3

\* The readings of time.time() are TickSeconds apart and end at MaxClock, so
\* that requests fall within one window, half a window apart and exactly 60
\* seconds apart.
TickSeconds == 30

MaxClock == 60

\* Two hosts without an API key and each of them with the same key.
LimiterRequests ==
    { [client |-> [host |-> host], headers |-> headers] :
        host \in {"10.0.0.1", "10.0.0.2"},
        headers \in {EmptyDict, [k \in {"x-api-key"} |-> "key-a"]} }

ClientIds == {client_id_of(request) : request \in LimiterRequests}

\* A request arrives and dispatch runs up to its await (or returns 429).
Dispatch ==
    \E request \in LimiterRequests :
        /\ Len(traffic.served) < MaxDispatches
        /\ LET done == dispatch(limiter, request, traffic.now)
           IN  /\ limiter' = done.self
               /\ traffic' = [traffic EXCEPT !.served =
                      Append(@, [request   |-> request,
                                 client_id |-> client_id_of(request),
                                 time      |-> traffic.now,
                                 admitted  |-> done.admitted,
                                 response  |-> done.response])]
        /\ UNCHANGED <<ctx, plan, frame, obs, call, aggregator, strategy>>

\* call_next returns for an admitted request and dispatch adds the headers.
CallNextReturns ==
    \E i \in DOMAIN traffic.served :
        /\ traffic.served[i].admitted
        /\ traffic.served[i].response = Nothing
        /\ traffic' = [traffic EXCEPT !.served[i].response =
               Some([status_code |-> 200,
                     headers     |-> dispatch_headers(limiter,
                                         traffic.served[i].client_id)])]
        /\ UNCHANGED <<ctx, plan, frame, obs, call, aggregator, strategy, limiter>>

\* time.time() moves on.
ClockAdvances ==
    /\ traffic.now + TickSeconds <= MaxClock
    /\ traffic' = [traffic EXCEPT !.now = @ + TickSeconds]
    /\ UNCHANGED <<ctx, plan, frame, obs, call, aggregator, strategy, limiter>>

NextRateLimit ==
    \/ Dispatch
    \/ CallNextReturns
    \/ ClockAdvances

SpecRateLimit == Init /\ [][NextRateLimit]_vars

\* ------------------------------------------------------------------------
\* C39
\* ------------------------------------------------------------------------

\* The served requests of a client that were admitted at a time in (lo, hi].
AdmittedIn(served, client_id, lo, hi) ==
    {j \in DOMAIN served :
        /\ served[j].client_id = client_id
        /\ served[j].admitted
        /\ lo < served[j].time
        /\ served[j].time <= hi}

\* The admission times of a client later than a given time, oldest first.
RECURSIVE AdmissionTimes(_, _, _)
AdmissionTimes(served, client_id, after) ==
    IF served = <<>> THEN <<>>
    ELSE LET first == Head(served)
             rest  == AdmissionTimes(Tail(served), client_id, after)
         IN  IF first.client_id = client_id /\ first.admitted /\ first.time > after
             THEN <<first.time>> \o rest
             ELSE rest

\* The time of the last request of a client, admitted or not.
LastRequestTime(served, client_id) ==
    LET own == {j \in DOMAIN served : served[j].client_id = client_id}
    IN  served[CHOOSE j \in own : \A k \in own : k <= j].time

\* C39: the client id of a request is its API key when the x-api-key header
\* is present and the client host otherwise; a request is admitted exactly
\* when fewer than requests_per_minute admitted requests of its client id
\* lie in the 60 seconds before it, so the admitted requests of a client in
\* any window of 60 seconds never exceed the limit; a rejected request is
\* answered 429 and not recorded (the list kept for a client holds the
\* admission times of that client only); and a request of one client leaves
\* the list of every other client as it was.
C39_RateLimitPerClient ==
    /\ [](LET served == traffic.served
              limit  == limiter.requests_per_minute
          IN  /\ \A i \in DOMAIN served :
                    /\ served[i].client_id =
                          IF "x-api-key" \in DOMAIN served[i].request.headers
                          THEN served[i].request.headers["x-api-key"]
                          ELSE served[i].request.client.host
                    /\ served[i].admitted <=>
                          Cardinality(AdmittedIn(SubSeq(served, 1, i - 1),
                                                 served[i].client_id,
                                                 served[i].time - 60,
                                                 served[i].time)) < limit
                    /\ ~served[i].admitted =>
                          /\ served[i].response # Nothing
                          /\ served[i].response[1].status_code = 429
                    /\ (served[i].admitted /\ served[i].response # Nothing) =>
                          served[i].response[1].status_code = 200
              /\ \A client_id \in ClientIds :
                    \A start \in 0..traffic.now :
                        Cardinality(AdmittedIn(served, client_id,
                                               start - 1, start + 59)) <= limit
              /\ \A client_id \in DOMAIN limiter.requests :
                    limiter.requests[client_id] =
                        AdmissionTimes(served, client_id,
                                       LastRequestTime(served, client_id) - 60))
    /\ [][Len(traffic'.served) > Len(traffic.served) =>
            \A client_id \in ClientIds :
                client_id # traffic'.served[Len(traffic'.served)].client_id =>
                    DictGet(limiter'.requests, client_id, <<>>)
                        = DictGet(limiter.requests, client_id, <<>>)]_vars

\* A client was rejected with the limit reached and admitted again once its
\* earlier requests were 60 seconds old, the list then holding that one
\* admission only.
C39_Witness ==
    \E i, j \in DOMAIN traffic.served :
        /\ i < j
        /\ traffic.served[i].client_id = traffic.served[j].client_id
        /\ ~traffic.served[i].admitted
        /\ traffic.served[i].time = 0
        /\ traffic.served[j].admitted
        /\ traffic.served[j].time = 60
        /\ Len(limiter.requests[traffic.served[j].client_id]) = 1

====
